---- MODULE Spec2Model ----
(***************************************************************************)
(* Model of the workspace file store (electron/file-manager.js) and the   *)
(* full-text search indexer (SearchIndexer, electron/extensions.js) of    *)
(* x0v3rt.                                                                 *)
(*                                                                         *)
(* A path is a sequence of segment names.  A file name handed to an        *)
(* operation is a record [abs, segs]; path.normalize / path.resolve /      *)
(* path.relative are computed on segments, and the string test             *)
(* `resolved.startsWith(notesDir)` is computed on the rendered characters. *)
(***************************************************************************)
EXTENDS Integers, Sequences, FiniteSets, TLC

VARIABLES
    notesDir,       \* file-manager.js `notesDir`: root of the open workspace
    arg,            \* the argument record of the last call
    ret,            \* the outcome of the last call
    pc,             \* position of the single caller: "idle" | "done"
    fs,             \* the filesystem: absolute path -> directory or file node
    previous,       \* <meta>/.previous: <<root, safe name>> -> (snapshot name -> content)
    dbs,            \* <meta>/db/search.db of each workspace: root -> [files, fts, seq]
    searchIndexer,  \* file-manager.js `searchIndexer`: the workspaceDir of the instance
    cachedIndex,    \* file-manager.js `cachedIndex`
    indexJson,      \* <meta>/index.json of each workspace: root -> persisted index
    now,            \* the clock read by new Date()
    last,           \* history: the last resolved calls
    tasks,          \* the async calls in flight, each at one of its awaits
    watcher,        \* file-manager.js `watcher`: the root fs.watch was started on
    watcherTimer    \* file-manager.js `watcherTimer`: ticks until the timeout runs, 0: none pending

callVars == <<arg, ret, pc, last>>
wsVars == <<notesDir, searchIndexer, watcher, watcherTimer>>
storeVars == <<fs, previous, dbs, cachedIndex, indexJson, now>>

vars == <<notesDir, arg, ret, pc, fs, previous, dbs, searchIndexer, cachedIndex,
          indexJson, now, last, tasks, watcher, watcherTimer>>

(***************************************************************************)
(* Bounds                                                                  *)
(***************************************************************************)
MaxNameLen == 3

(***************************************************************************)
(* Program constants                                                       *)
(***************************************************************************)
META_DIRNAME == ".x0v3rt"

Root1 == <<"w">>
Root2 == <<"w2">>

\* `null` for notesDir, watcher and searchIndexer
NoRoot == <<>>

(***************************************************************************)
(* Strings.  Chars gives the characters of a segment name.                 *)
(***************************************************************************)
Chars(seg) ==
    CASE seg = "w"        -> <<"w">>
      [] seg = "w2"       -> <<"w", "2">>
      [] seg = ".."       -> <<".", ".">>
      [] seg = "."        -> <<".">>
      [] seg = "d"        -> <<"d">>
      [] seg = "b"        -> <<"b">>
      [] seg = "e"        -> <<"e">>
      [] seg = "a.md"     -> <<"a", ".", "m", "d">>
      [] seg = "b.md"     -> <<"b", ".", "m", "d">>
      [] seg = "a.txt"    -> <<"a", ".", "t", "x", "t">>
      [] seg = "a.bin"    -> <<"a", ".", "b", "i", "n">>
      [] seg = "d_a.md"   -> <<"d", "_", "a", ".", "m", "d">>
      [] seg = ".h.md"    -> <<".", "h", ".", "m", "d">>
      [] seg = ".g"       -> <<".", "g">>
      [] seg = ".x0v3rt"  -> <<".", "x", "0", "v", "3", "r", "t">>

RECURSIVE RenderAbs(_)
RenderAbs(p) ==
    IF p = <<>> THEN <<>>
    ELSE RenderAbs(SubSeq(p, 1, Len(p) - 1)) \o <<"/">> \o Chars(p[Len(p)])

StartsWith(s, t) == Len(t) <= Len(s) /\ SubSeq(s, 1, Len(t)) = t

IsPrefix(p, q) == Len(p) <= Len(q) /\ SubSeq(q, 1, Len(p)) = p

Range(s) == {s[i] : i \in 1..Len(s)}

(***************************************************************************)
(* path.normalize / path.resolve / path.relative (POSIX)                   *)
(***************************************************************************)
RECURSIVE NormalizeSegs(_, _, _)
NormalizeSegs(segs, abs, acc) ==
    IF segs = <<>> THEN acc
    ELSE LET s == Head(segs)
             rest == Tail(segs)
         IN  IF s = "." THEN NormalizeSegs(rest, abs, acc)
             ELSE IF s = ".."
                  THEN IF acc # <<>> /\ acc[Len(acc)] # ".."
                       THEN NormalizeSegs(rest, abs, SubSeq(acc, 1, Len(acc) - 1))
                       ELSE IF abs THEN NormalizeSegs(rest, abs, acc)
                            ELSE NormalizeSegs(rest, abs, Append(acc, ".."))
                  ELSE NormalizeSegs(rest, abs, Append(acc, s))

Normalize(name) == [abs |-> name.abs, segs |-> NormalizeSegs(name.segs, name.abs, <<>>)]

Resolve(base, name) ==
    IF name.abs THEN NormalizeSegs(name.segs, TRUE, <<>>)
    ELSE NormalizeSegs(base \o name.segs, TRUE, <<>>)

RECURSIVE CommonLen(_, _)
CommonLen(p, q) ==
    IF p = <<>> \/ q = <<>> \/ Head(p) # Head(q) THEN 0
    ELSE 1 + CommonLen(Tail(p), Tail(q))

Relative(from, to) ==
    LET k == CommonLen(from, to)
    IN  [i \in 1..(Len(from) - k) |-> ".."] \o SubSeq(to, k + 1, Len(to))

(***************************************************************************)
(* isMetaPath, resolveSafePath                                             *)
(***************************************************************************)
\* an isMetaPath that finds no path in the metadata directory
isMetaPath_Never(root, targetPath) == FALSE

isMetaPath(root, targetPath) == META_DIRNAME \in Range(Relative(root, targetPath))

Ok(p)   == [ok |-> TRUE,  path |-> p,    err |-> "none"]
Err(e)  == [ok |-> FALSE, path |-> <<>>, err |-> e]

\* a resolveSafePath without the test of the metadata directory
resolveSafePath_NoMetaCheck(root, filename, allowMeta) ==
    LET resolved == Resolve(root, Normalize(filename))
    IN  IF ~StartsWith(RenderAbs(resolved), RenderAbs(root))
        THEN Err("Invalid filename")
        ELSE Ok(resolved)

resolveSafePath(root, filename, allowMeta) ==
    LET normalized == Normalize(filename)
        resolved   == Resolve(root, normalized)
    IN  IF ~StartsWith(RenderAbs(resolved), RenderAbs(root))
        THEN Err("Invalid filename")
        ELSE IF isMetaPath(root, resolved) /\ ~allowMeta
             THEN Err("Access to metadata folder is restricted")
             ELSE Ok(resolved)

(***************************************************************************)
(* File contents.  A content stands for the text of a file: its front      *)
(* matter block and its body.  fm.kind is "none" (no front matter),        *)
(* "yaml" (a block yaml.load parses to the mapping fm.data) or "raw" (a    *)
(* block yaml.load rejects, or loads as empty; fm.raw names its text).     *)
(* fm.canon says the block is spelled exactly as writeFile spells it       *)
(* (yaml.dump output, fences followed by one blank line), so two contents  *)
(* are equal exactly when the two texts are equal.                         *)
(***************************************************************************)
Keys == {"title", "created_timestamp", "modified_timestamp", "author", "tags"}

NoData == [k \in Keys |-> "-"]

NoFM == [kind |-> "none", data |-> NoData, raw |-> "-", canon |-> TRUE]

YamlFM(data, canon) == [kind |-> "yaml", data |-> data, raw |-> "-", canon |-> canon]

RawFM(raw, canon) == [kind |-> "raw", data |-> NoData, raw |-> raw, canon |-> canon]

Content(fm, body) == [fm |-> fm, body |-> body]

\* {...under, ...over}: a key of `over` replaces the same key of `under`
Spread(under, over) == [k \in Keys |-> IF over[k] # "-" THEN over[k] ELSE under[k]]

\* settings-manager preferences: frontMatter.defaults of the system and user level
SystemDefaults == [NoData EXCEPT !["author"] = "sys", !["tags"] = "sys"]
UserDefaults   == [NoData EXCEPT !["tags"] = "usr"]

TicksPerMinute == 2

formatFrontMatterTimestamp(t) == ToString(t \div TicksPerMinute)

parseFrontMatter(content) ==
    [data           |-> content.fm.data,
     body           |-> content.body,
     raw            |-> content.fm.raw,
     hasData        |-> content.fm.kind = "yaml",
     hasFrontMatter |-> content.fm.kind # "none"]

\* `---\n${yaml.dump(data)}---\n\n`
buildFrontMatter(data) == YamlFM(data, TRUE)

\* path.extname(name).toLowerCase() and path.basename(name, ext) of a last segment
ExtName(seg) ==
    CASE seg \in {"a.md", "d_a.md", ".h.md", "b.md", "a.MD"} -> ".md"
      [] seg = "a.txt" -> ".txt"
      [] seg = "a.bin" -> ".bin"
      [] OTHER -> ""

BaseTitle(seg) ==
    CASE seg = "a.md" -> "a"
      [] seg = "b.md" -> "b"
      [] seg = "d_a.md" -> "d_a"
      [] seg = ".h.md" -> ".h"
      [] seg = "a.MD" -> "a.MD"
      [] seg = "a.txt" -> "a"
      [] seg = "a.bin" -> "a"
      [] OTHER -> seg

LastSeg(segs) == IF segs = <<>> THEN "" ELSE segs[Len(segs)]

\* writeFile lines 377-388, createFile lines 442-452
SynthFrontMatterWith(filename, t, systemDefaults, userDefaults) ==
    LET ext  == ExtName(LastSeg(filename.segs))
        ts   == formatFrontMatterTimestamp(t)
        base == [NoData EXCEPT !["title"] = BaseTitle(LastSeg(filename.segs)),
                               !["created_timestamp"] = ts,
                               !["modified_timestamp"] = ts]
    IN  Spread(Spread(base, systemDefaults), userDefaults)

SynthFrontMatter(filename, t) ==
    SynthFrontMatterWith(filename, t, SystemDefaults, UserDefaults)

\* a writeFile that regenerates the front matter whenever the new content has none
ApplyWritePolicy_Regenerate(filename, content, prev, t) ==
    LET ext == ExtName(LastSeg(filename.segs))
    IN  IF ext # ".md" THEN content
        ELSE IF parseFrontMatter(content).hasFrontMatter THEN content
        ELSE Content(buildFrontMatter(SynthFrontMatter(filename, t)), content.body)

\* a writeFile that applies the front-matter policy whatever the extension
ApplyWritePolicy_AnyExt(filename, content, prev, t) ==
    IF parseFrontMatter(content).hasFrontMatter THEN content
    ELSE IF prev.some /\ parseFrontMatter(prev.c).hasFrontMatter
         THEN IF parseFrontMatter(prev.c).hasData
              THEN Content(buildFrontMatter(parseFrontMatter(prev.c).data), content.body)
              ELSE Content(RawFM(parseFrontMatter(prev.c).raw, TRUE), content.body)
         ELSE Content(buildFrontMatter(SynthFrontMatter(filename, t)), content.body)

\* writeFile lines 366-391: the content that is persisted
ApplyWritePolicy(filename, content, prev, t) ==
    LET ext == ExtName(LastSeg(filename.segs))
    IN  IF ext # ".md" THEN content
        ELSE IF parseFrontMatter(content).hasFrontMatter THEN content
        ELSE IF prev.some /\ parseFrontMatter(prev.c).hasFrontMatter
             THEN IF parseFrontMatter(prev.c).hasData
                  THEN Content(buildFrontMatter(parseFrontMatter(prev.c).data), content.body)
                  ELSE Content(RawFM(parseFrontMatter(prev.c).raw, TRUE), content.body)
             ELSE Content(buildFrontMatter(SynthFrontMatter(filename, t)), content.body)

\* a writeFile that snapshots whenever the document existed
NeedsSnapshot_Always(prev, content) == prev.some

\* writeFile line 393
NeedsSnapshot(prev, content) == prev.some /\ prev.c # content

(***************************************************************************)
(* The filesystem: a function from the absolute paths that exist to nodes. *)
(***************************************************************************)
DirNode == [type |-> "dir"]
FileNode(c) == [type |-> "file", content |-> c]

Exists(fsys, p) == p \in DOMAIN fsys
IsDir(fsys, p)  == Exists(fsys, p) /\ fsys[p].type = "dir"
IsFile(fsys, p) == Exists(fsys, p) /\ fsys[p].type = "file"

Parent(p) == SubSeq(p, 1, Len(p) - 1)

Ancestors(p) == {SubSeq(p, 1, i) : i \in 1..(Len(p) - 1)}

\* some proper ancestor of p is a regular file (ENOTDIR)
UnderFile(fsys, p) == \E a \in Ancestors(p) : IsFile(fsys, a)

Put(fsys, p, node) ==
    [q \in DOMAIN fsys \cup {p} |-> IF q = p THEN node ELSE fsys[q]]

\* fs.mkdir(p, {recursive: true})
MkdirP(fsys, p) ==
    LET add == {q \in Ancestors(p) \cup {p} : q # <<>> /\ ~Exists(fsys, q)}
    IN  [q \in DOMAIN fsys \cup add |-> IF q \in add THEN DirNode ELSE fsys[q]]

\* fs.writeFile(p, content)
WriteNode(fsys, p, c) == Put(fsys, p, FileNode(c))

\* fs.unlink(p) / fs.rm(p, {recursive: true, force: true})
RemoveTree(fsys, p) ==
    [q \in {r \in DOMAIN fsys : ~IsPrefix(p, r)} |-> fsys[q]]

\* fs.rename(from, to): the node and everything below it
Rename(fsys, from, to) ==
    LET moved == {r \in DOMAIN fsys : IsPrefix(from, r)}
        kept  == DOMAIN fsys \ moved
        dest(r) == to \o SubSeq(r, Len(from) + 1, Len(r))
    IN  [q \in kept \cup {dest(r) : r \in moved} |->
            IF q \in kept THEN fsys[q]
            ELSE fsys[CHOOSE r \in moved : dest(r) = q]]

NoContent == Content(NoFM, "")

\* fs.readFile with ENOENT mapped to null (lines 359-364, 511-516)
ReadPrev(fsys, p) ==
    IF IsFile(fsys, p) THEN [some |-> TRUE, c |-> fsys[p].content]
    ELSE [some |-> FALSE, c |-> NoContent]

(***************************************************************************)
(* Version snapshots: <root>/.x0v3rt/.previous/<safeName>/<timestamp>.md    *)
(***************************************************************************)
RECURSIVE JoinWith(_, _)
JoinWith(segs, sep) ==
    IF segs = <<>> THEN ""
    ELSE IF Len(segs) = 1 THEN segs[1]
    ELSE segs[1] \o sep \o JoinWith(Tail(segs), sep)

\* filename.replace(/[\\/]/g, '_') on the name as the caller spelled it
SafeName(filename) ==
    IF filename.abs THEN "_" \o JoinWith(filename.segs, "_")
    ELSE JoinWith(filename.segs, "_")

\* getPreviousDir: the snapshot directory of a name, created when missing
PreviousKey(root, filename) == <<root, SafeName(filename)>>

EnsurePreviousDir(prevs, key) ==
    IF key \in DOMAIN prevs THEN prevs
    ELSE [k \in DOMAIN prevs \cup {key} |-> IF k = key THEN <<>> ELSE prevs[k]]

\* the snapshot `${timestamp}.md` / `${timestamp}-redo.md`
SnapName(t, redo) == [t |-> t, redo |-> redo]

\* position of a snapshot name in entries.sort(): by timestamp, and for one
\* timestamp "...Z-redo.md" before "...Z.md" ("-" sorts before ".")
SortRank(n) == 2 * n.t + (IF n.redo THEN 0 ELSE 1)

WriteSnapshot(prevs, key, name, c) ==
    LET dir == EnsurePreviousDir(prevs, key)
    IN  [dir EXCEPT ![key] =
            [n \in DOMAIN dir[key] \cup {name} |-> IF n = name THEN c ELSE dir[key][n]]]

SnapshotsOf(prevs, key) == IF key \in DOMAIN prevs THEN DOMAIN prevs[key] ELSE {}

\* an undoFile that forgets the reverse(): sorted[0] of entries.sort()
LatestSnapshot_Oldest(prevs, key) ==
    CHOOSE n \in DOMAIN prevs[key] : \A m \in DOMAIN prevs[key] : SortRank(n) <= SortRank(m)

\* sorted[0] of entries.sort().reverse()
LatestSnapshot(prevs, key) ==
    CHOOSE n \in DOMAIN prevs[key] : \A m \in DOMAIN prevs[key] : SortRank(m) <= SortRank(n)

(***************************************************************************)
(* SearchIndexer: table `files`, table `files_fts`, the AUTOINCREMENT      *)
(* sequence of `files`.                                                    *)
(***************************************************************************)
TEXT_EXTENSIONS ==
    {".md", ".txt", ".json", ".js", ".py", ".sql", ".html", ".css",
     ".yaml", ".yml", ".sh", ".bash", ".xml", ".csv"}

EmptyDb == [files |-> {}, fts |-> {}, seq |-> 0]

\* the database of the current SearchIndexer instance
db == IF searchIndexer \in DOMAIN dbs THEN dbs[searchIndexer] ELSE EmptyDb

\* stats.size > 1024 * 1024
IsLarge(c) == c.body = "L"

\* SearchIndexer.parseFrontMatter: the front matter text and the body indexed
IndexedFrontMatter(c, ext) ==
    IF ext # ".md" \/ c.fm.kind = "none" THEN NoFM
    ELSE [c.fm EXCEPT !.canon = TRUE]

IndexedBody(c, ext) ==
    IF ext # ".md" THEN c ELSE Content(NoFM, c.body)

\* the record of `files` with a path, as a set of zero or one records
RecordsAt(d, relativePath) == {f \in d.files : f.path = relativePath}

\* a removeFile that deletes the record and leaves its full-text entry
RemoveFileDb_KeepFts(d, workspaceDir, filepath) ==
    [d EXCEPT !.files = d.files \ RecordsAt(d, Relative(workspaceDir, filepath))]

\* SearchIndexer.removeFile
RemoveFileDb(d, workspaceDir, filepath) ==
    LET relativePath == Relative(workspaceDir, filepath)
        gone == RecordsAt(d, relativePath)
    IN  [d EXCEPT !.files = d.files \ gone,
                  !.fts = {r \in d.fts : \A f \in gone : r.rowid # f.id}]

\* an upsert that leaves the full-text entry the record had
UpsertDb_KeepFts(d, workspaceDir, filepath, c) ==
    LET filename == LastSeg(filepath)
        ext == ExtName(filename)
        relativePath == Relative(workspaceDir, filepath)
        old == RecordsAt(d, relativePath)
        fileId == IF old = {} THEN d.seq + 1 ELSE (CHOOSE f \in old : TRUE).id
    IN  [files |-> (d.files \ old) \cup
                     {[id |-> fileId, path |-> relativePath, filename |-> filename,
                       fm |-> IndexedFrontMatter(c, ext)]},
         fts   |-> d.fts \cup
                     {[rowid |-> fileId, filename |-> filename,
                       content |-> IndexedBody(c, ext),
                       fm |-> IndexedFrontMatter(c, ext)]},
         seq   |-> IF old = {} THEN d.seq + 1 ELSE d.seq]

\* SearchIndexer.indexFile from the upsert on: the statements that run on the
\* database once the content c of the file has been read
UpsertDb(d, workspaceDir, filepath, c) ==
    LET filename == LastSeg(filepath)
        ext == ExtName(filename)
        relativePath == Relative(workspaceDir, filepath)
        old == RecordsAt(d, relativePath)
        fileId == IF old = {} THEN d.seq + 1 ELSE (CHOOSE f \in old : TRUE).id
        rec == [id |-> fileId, path |-> relativePath, filename |-> filename,
                fm |-> IndexedFrontMatter(c, ext)]
        row == [rowid |-> fileId, filename |-> filename,
                content |-> IndexedBody(c, ext),
                fm |-> IndexedFrontMatter(c, ext)]
    IN  [files |-> (d.files \ old) \cup {rec},
         fts   |-> {r \in d.fts : r.rowid # fileId} \cup {row},
         seq   |-> IF old = {} THEN d.seq + 1 ELSE d.seq]

\* SearchIndexer.indexFile: the checks that make it return false
Skipped(filepath, c) ==
    ExtName(LastSeg(filepath)) \notin TEXT_EXTENSIONS \/ IsLarge(c)

\* SearchIndexer.indexFile
IndexFileDb(d, workspaceDir, fsys, filepath) ==
    IF ~IsFile(fsys, filepath) THEN d
    ELSE IF Skipped(filepath, fsys[filepath].content) THEN d
    ELSE UpsertDb(d, workspaceDir, filepath, fsys[filepath].content)

\* the first character of a name is "."
Hidden(seg) == Chars(seg)[1] = "."

\* SearchIndexer.indexDirectory: the files the walk hands to indexFile
WalkedFiles(workspaceDir, fsys) ==
    {p \in DOMAIN fsys :
        /\ IsFile(fsys, p)
        /\ IsPrefix(workspaceDir, p) /\ p # workspaceDir
        /\ \A i \in (Len(workspaceDir) + 1)..(Len(p) - 1) : ~Hidden(p[i])}

RECURSIVE IndexAll(_, _, _, _)
IndexAll(d, workspaceDir, fsys, todo) ==
    IF todo = {} THEN d
    ELSE LET p == CHOOSE q \in todo : TRUE
         IN  IndexAll(IndexFileDb(d, workspaceDir, fsys, p), workspaceDir, fsys, todo \ {p})

\* a rebuildIndex that keeps what the tables held
RebuildDb_NoClear(d, workspaceDir, fsys) ==
    IndexAll(d, workspaceDir, fsys, WalkedFiles(workspaceDir, fsys))

\* SearchIndexer.rebuildIndex
RebuildDb(d, workspaceDir, fsys) ==
    IndexAll([d EXCEPT !.files = {}, !.fts = {}], workspaceDir, fsys,
             WalkedFiles(workspaceDir, fsys))

\* the words the full-text engine finds in a row
RowTerms(r) ==
    {r.content.body, BaseTitle(r.filename)}
        \cup ({r.fm.data[k] : k \in Keys} \ {"-"})
        \cup ({r.content.fm.data[k] : k \in Keys} \ {"-"})

\* a search without the guard of lines 625-627: MATCH of an empty query is a
\* syntax error, and the LIKE '%%' of the fallback matches every record
Search_NoGuard(d, query) ==
    IF query \in {"", " "} THEN {f.path : f \in d.files}
    ELSE {f.path : f \in {g \in d.files : \E r \in d.fts :
                                  r.rowid = g.id /\ query \in RowTerms(r)}}

\* SearchIndexer.search: the paths of the rows matching a one-word query;
\* query "" and " " are the empty and the whitespace-only query
Search(d, query) ==
    IF query \in {"", " "} THEN {}
    ELSE {f.path : f \in {g \in d.files : \E r \in d.fts :
                                  r.rowid = g.id /\ query \in RowTerms(r)}}

(***************************************************************************)
(* TreeIndexer: scanDir / buildIndex                                       *)
(***************************************************************************)
\* scanDir with includeHidden = includeMeta = false, as the set of its nodes
\* a scanDir that skips the metadata directory only as a hidden entry
ScanDirWith_NoMetaSkip(root, fsys, includeHidden, includeMeta) ==
    {[path |-> Relative(root, p), type |-> fsys[p].type] :
        p \in {q \in DOMAIN fsys :
                 /\ IsPrefix(root, q) /\ q # root
                 /\ \A i \in (Len(root) + 1)..Len(q) : includeHidden \/ ~Hidden(q[i])}}

\* scanDir with its options: the entries of the tree it returns
ScanDirWith(root, fsys, includeHidden, includeMeta) ==
    {[path |-> Relative(root, p), type |-> fsys[p].type] :
        p \in {q \in DOMAIN fsys :
                 /\ IsPrefix(root, q) /\ q # root
                 /\ \A i \in (Len(root) + 1)..Len(q) :
                        /\ includeMeta \/ q[i] # META_DIRNAME
                        /\ includeHidden \/ ~Hidden(q[i])}}

\* scanDir as buildIndex calls it
ScanDir(root, fsys) == ScanDirWith(root, fsys, FALSE, FALSE)

NoIndex == [valid |-> FALSE, tree |-> {}, root |-> NoRoot]

\* buildIndex lines 1304-1309: the value assigned to cachedIndex; `root` records
\* the directory the tree was scanned from
IndexOf(root, tree) == [valid |-> TRUE, tree |-> tree, root |-> root]

BuiltIndex(root, fsys) == IndexOf(root, ScanDir(root, fsys))

(***************************************************************************)
(* Spec: one caller, every call completes before the next one is issued.   *)
(* Each action is a whole function of file-manager.js.                     *)
(***************************************************************************)
Rel(segs) == [abs |-> FALSE, segs |-> segs]

NoName == Rel(<<>>)

NoPrev == [some |-> FALSE, c |-> NoContent]

\* outcome of a call: resolved value or thrown error
Returned(c, paths) == [ok |-> TRUE, err |-> "none", content |-> c, paths |-> paths]
Thrown(e) == [ok |-> FALSE, err |-> e, content |-> NoContent, paths |-> {}]

\* history record of a resolved call: its name and arguments, the content the
\* document had on disk before it, the content it persisted or returned, and
\* what the snapshot directory and the index held for the document before it
Hist(op, name, to, ok, prev, out, snaps) ==
    [op |-> op, name |-> name, to |-> to, ok |-> ok, prev |-> prev, out |-> out,
     snaps |-> snaps,
     wasDir |-> IsDir(fs, Resolve(notesDir, name)),
     rec |-> RecordsAt(db, Relative(notesDir, Resolve(notesDir, name)))]

NoLast == <<>>

\* the last three resolved calls, the most recent first
Push(h) == IF Len(last) < 3 THEN <<h>> \o last ELSE <<h>> \o SubSeq(last, 1, 2)

\* the i-th most recent record of the history is of this operation
LastIs(i, op) == Len(last) >= i /\ last[i].op = op

NoArg == [op |-> "none", name |-> NoName, to |-> NoName]

\* a call that resolves: the caller goes on
Call(a, r, h) ==
    /\ pc = "idle"
    /\ arg' = a
    /\ ret' = r
    /\ last' = Push(h)
    /\ UNCHANGED <<notesDir, pc>>

\* a call that throws, or a query: the caller looks at the outcome first
Report(a, r) ==
    /\ pc = "idle"
    /\ arg' = a
    /\ ret' = r
    /\ pc' = "reported"
    /\ UNCHANGED <<notesDir, last>>

\* the effects of a whole call; buildIndex also persists the index it built
Store(f, p, d, i, t) ==
    /\ fs' = f
    /\ previous' = p
    /\ dbs' = IF searchIndexer = NoRoot THEN dbs ELSE [dbs EXCEPT ![searchIndexer] = d]
    /\ cachedIndex' = i
    /\ indexJson' = IF i = cachedIndex THEN indexJson
                    ELSE [r \in DOMAIN indexJson \cup {notesDir} |->
                            IF r = notesDir THEN i ELSE indexJson[r]]
    /\ now' = t
    /\ UNCHANGED <<searchIndexer, tasks, watcher, watcherTimer>>

\* a call that throws before it changed anything
Fails(op, name, to, e) ==
    /\ Report([op |-> op, name |-> name, to |-> to], Thrown(e))
    /\ UNCHANGED <<storeVars, searchIndexer, tasks, watcher, watcherTimer>>

\* fs.readFile / fs.lstat on a path fail with something other than ENOENT
Unreadable(fsys, p) == IsDir(fsys, p) \/ UnderFile(fsys, p)

writeFile(filename, content) ==
    LET r == resolveSafePath(notesDir, filename, FALSE)
        filepath == r.path
        prev == ReadPrev(fs, filepath)
        final == ApplyWritePolicy(filename, content, prev, now)
        key == PreviousKey(notesDir, filename)
        fs1 == WriteNode(MkdirP(fs, Parent(filepath)), filepath, final)
    IN  IF ~r.ok THEN Fails("write", filename, NoName, r.err)
        ELSE IF Unreadable(fs, filepath) THEN Fails("write", filename, NoName, "EIO")
        ELSE /\ Store(fs1,
                      IF NeedsSnapshot(prev, final)
                      THEN WriteSnapshot(previous, key, SnapName(now, FALSE), prev.c)
                      ELSE previous,
                      IndexFileDb(db, searchIndexer, fs1, filepath),
                      BuiltIndex(notesDir, fs1),
                      now + 1)
             /\ Call([op |-> "write", name |-> filename, to |-> NoName],
                     Returned(final, {}),
                     Hist("write", filename, NoName, TRUE, prev, final,
                          SnapshotsOf(previous, key)) @@ [given |-> content])

undoFile(filename) ==
    LET key == PreviousKey(notesDir, filename)
        prevs1 == EnsurePreviousDir(previous, key)
        r == resolveSafePath(notesDir, filename, FALSE)
        filepath == r.path
        restored == prevs1[key][LatestSnapshot(prevs1, key)]
        current == ReadPrev(fs, filepath)
        fs1 == WriteNode(fs, filepath, restored)
        throws(e) ==
            /\ Report([op |-> "undo", name |-> filename, to |-> NoName], Thrown(e))
            /\ previous' = prevs1
            /\ UNCHANGED <<fs, dbs, cachedIndex, indexJson, now>>
            /\ UNCHANGED <<searchIndexer, tasks, watcher, watcherTimer>>
    IN  IF DOMAIN prevs1[key] = {} THEN throws("No previous versions")
        ELSE IF ~r.ok THEN throws(r.err)
        ELSE IF Unreadable(fs, filepath) \/ ~IsDir(fs, Parent(filepath)) THEN throws("EIO")
        ELSE /\ Store(fs1,
                      IF current.some /\ current.c # restored
                      THEN WriteSnapshot(prevs1, key, SnapName(now, TRUE), current.c)
                      ELSE prevs1,
                      db,
                      BuiltIndex(notesDir, fs1),
                      now + 1)
             /\ Call([op |-> "undo", name |-> filename, to |-> NoName],
                     Returned(restored, {}),
                     Hist("undo", filename, NoName, TRUE, current, restored,
                          SnapshotsOf(previous, key)))

deleteFile(filename) ==
    LET r == resolveSafePath(notesDir, filename, FALSE)
        filepath == r.path
        fs1 == RemoveTree(fs, filepath)
    IN  IF ~r.ok THEN Fails("delete", filename, NoName, r.err)
        ELSE IF ~Exists(fs, filepath) THEN Fails("delete", filename, NoName, "ENOENT")
        ELSE /\ Store(fs1, previous,
                      RemoveFileDb(db, searchIndexer, filepath),
                      BuiltIndex(notesDir, fs1),
                      now + 1)
             /\ Call([op |-> "delete", name |-> filename, to |-> NoName],
                     Returned(NoContent, {}),
                     Hist("delete", filename, NoName, TRUE, ReadPrev(fs, filepath),
                          NoContent, {}))

\* a moveFile that indexes the target and forgets the source
MoveIndexUpdate_NoRemove(d, workspaceDir, fsys, resolvedSource, resolvedTarget) ==
    IndexFileDb(d, workspaceDir, fsys, resolvedTarget)

\* moveFile lines 602-606: removeFile(resolvedSource), indexFile(resolvedTarget)
MoveIndexUpdate(d, workspaceDir, fsys, resolvedSource, resolvedTarget) ==
    IndexFileDb(RemoveFileDb(d, workspaceDir, resolvedSource),
                workspaceDir, fsys, resolvedTarget)

\* moveFile lines 578-579: an absolute argument is taken as it is
ResolveMoveArg(root, name) ==
    IF name.abs THEN Ok(NormalizeSegs(name.segs, TRUE, <<>>))
    ELSE resolveSafePath(root, name, FALSE)

\* a moveFile that creates the target's parent directories before it checks
\* that the source exists and the target does not
moveFile_MkdirFirst(sourcePath, targetPath) ==
    LET rs == ResolveMoveArg(notesDir, sourcePath)
        rt == ResolveMoveArg(notesDir, targetPath)
        resolvedSource == rs.path
        resolvedTarget == rt.path
        fs0 == MkdirP(fs, Parent(resolvedTarget))
        fs1 == Rename(fs0, resolvedSource, resolvedTarget)
        db1 == MoveIndexUpdate(db, searchIndexer, fs1, resolvedSource, resolvedTarget)
        throwsAfterMkdir(e) ==
            /\ Report([op |-> "move", name |-> sourcePath, to |-> targetPath], Thrown(e))
            /\ fs' = IF UnderFile(fs, resolvedTarget) THEN fs ELSE fs0
            /\ UNCHANGED <<previous, dbs, cachedIndex, indexJson, now>>
            /\ UNCHANGED <<searchIndexer, tasks, watcher, watcherTimer>>
    IN  IF ~rs.ok THEN Fails("move", sourcePath, targetPath, rs.err)
        ELSE IF ~rt.ok THEN Fails("move", sourcePath, targetPath, rt.err)
        ELSE IF ~Exists(fs, resolvedSource) \/ UnderFile(fs, resolvedSource)
             THEN throwsAfterMkdir("Source file does not exist")
        ELSE IF Exists(fs, resolvedTarget)
             THEN throwsAfterMkdir("Target file already exists")
        ELSE IF UnderFile(fs, resolvedTarget)
             THEN Fails("move", sourcePath, targetPath, "EIO")
        ELSE IF IsPrefix(resolvedSource, resolvedTarget)
             THEN throwsAfterMkdir("EINVAL")
        ELSE /\ Store(fs1, previous, db1, BuiltIndex(notesDir, fs1), now + 1)
             /\ Call([op |-> "move", name |-> sourcePath, to |-> targetPath],
                     Returned(NoContent, {Relative(notesDir, resolvedTarget)}),
                     Hist("move", sourcePath, targetPath, TRUE,
                          ReadPrev(fs, resolvedSource), NoContent, {}))

moveFile(sourcePath, targetPath) ==
    LET rs == ResolveMoveArg(notesDir, sourcePath)
        rt == ResolveMoveArg(notesDir, targetPath)
        resolvedSource == rs.path
        resolvedTarget == rt.path
        fs0 == MkdirP(fs, Parent(resolvedTarget))
        fs1 == Rename(fs0, resolvedSource, resolvedTarget)
        db1 == MoveIndexUpdate(db, searchIndexer, fs1, resolvedSource, resolvedTarget)
    IN  IF ~rs.ok THEN Fails("move", sourcePath, targetPath, rs.err)
        ELSE IF ~rt.ok THEN Fails("move", sourcePath, targetPath, rt.err)
        ELSE IF ~Exists(fs, resolvedSource) \/ UnderFile(fs, resolvedSource)
             THEN Fails("move", sourcePath, targetPath, "Source file does not exist")
        ELSE IF Exists(fs, resolvedTarget)
             THEN Fails("move", sourcePath, targetPath, "Target file already exists")
        ELSE IF UnderFile(fs, resolvedTarget)
             THEN Fails("move", sourcePath, targetPath, "EIO")
        ELSE IF IsPrefix(resolvedSource, resolvedTarget)
             THEN \* fs.rename into the source's own subtree fails after the mkdir
                  /\ Report([op |-> "move", name |-> sourcePath, to |-> targetPath],
                            Thrown("EINVAL"))
                  /\ fs' = fs0
                  /\ UNCHANGED <<previous, dbs, cachedIndex, indexJson, now>>
                  /\ UNCHANGED <<searchIndexer, tasks, watcher, watcherTimer>>
        ELSE /\ Store(fs1, previous, db1, BuiltIndex(notesDir, fs1), now + 1)
             /\ Call([op |-> "move", name |-> sourcePath, to |-> targetPath],
                     Returned(NoContent, {Relative(notesDir, resolvedTarget)}),
                     Hist("move", sourcePath, targetPath, TRUE,
                          ReadPrev(fs, resolvedSource), NoContent, {}))

\* search:reindex
rebuildIndex ==
    /\ Store(fs, previous, RebuildDb(db, searchIndexer, fs), cachedIndex, now + 1)
    /\ Call([op |-> "reindex", name |-> NoName, to |-> NoName],
            Returned(NoContent, {}),
            Hist("reindex", NoName, NoName, TRUE, NoPrev, NoContent, {}))

\* search:query
search(query) ==
    /\ Report([op |-> "search", name |-> NoName, to |-> NoName, query |-> query],
              Returned(NoContent, Search(db, query)))
    /\ UNCHANGED <<storeVars, searchIndexer, tasks, watcher, watcherTimer>>

\* listFiles: the cached tree, or a walk when an option is set
listFiles(includeHidden, includeMeta) ==
    /\ Report([op |-> "list", name |-> NoName, to |-> NoName,
                includeHidden |-> includeHidden, includeMeta |-> includeMeta],
              Returned(NoContent,
                       IF ~includeHidden /\ ~includeMeta
                       THEN {e.path : e \in cachedIndex.tree}
                       ELSE {e.path : e \in ScanDirWith(notesDir, fs, includeHidden,
                                                         includeMeta)}))
    /\ UNCHANGED <<storeVars, searchIndexer, tasks, watcher, watcherTimer>>

\* the {missing: true} answer of 'file:read', which IPC.readFile turns into null
Missing == [ok |-> TRUE, err |-> "none", content |-> NoContent, paths |-> {},
            missing |-> TRUE]

\* readFile lines 335-338: the outcome of resolveSafePath and fs.readFile,
\* a thrown error named by its message or code
readFileOutcome(filename, allowMeta) ==
    LET r == resolveSafePath(notesDir, filename, allowMeta)
    IN  IF ~r.ok THEN Thrown(r.err)
        ELSE IF IsFile(fs, r.path) THEN Returned(fs[r.path].content, {})
        ELSE IF IsDir(fs, r.path) THEN Thrown("EISDIR")
        ELSE IF UnderFile(fs, r.path) THEN Thrown("ENOTDIR")
        ELSE Thrown("ENOENT")

\* a handler that answers every failure with the missing marker
ReadHandler_AllMissing(out) == IF out.ok THEN out ELSE Missing

\* ipcMain.handle('file:read') lines 727-737
ReadHandler(out) == IF ~out.ok /\ out.err = "ENOENT" THEN Missing ELSE out

readFile(filename, allowMeta) ==
    /\ Report([op |-> "read", name |-> filename, to |-> NoName, allowMeta |-> allowMeta],
              ReadHandler(readFileOutcome(filename, allowMeta)))
    /\ UNCHANGED <<storeVars, searchIndexer, tasks, watcher, watcherTimer>>

\* createFile lines 424-426: the name with ".md" appended when it lacks it
WithMd(filename) ==
    IF ExtName(LastSeg(filename.segs)) = ".md" THEN filename
    ELSE [filename EXCEPT !.segs[Len(filename.segs)] =
            CASE @ = "b" -> "b.md"
              [] OTHER -> "b.md"]

createFile(name) ==
    LET filename == WithMd(name)
        r == resolveSafePath(notesDir, filename, FALSE)
        filepath == r.path
        content == Content(buildFrontMatter(SynthFrontMatter(filename, now)), "")
        fs1 == WriteNode(MkdirP(fs, Parent(filepath)), filepath, content)
    IN  IF ~r.ok THEN Fails("create", name, NoName, r.err)
        ELSE IF Exists(fs, filepath) THEN Fails("create", name, NoName, "File already exists")
        ELSE IF UnderFile(fs, filepath) THEN Fails("create", name, NoName, "EIO")
        ELSE /\ Store(fs1, previous, db, BuiltIndex(notesDir, fs1), now + 1)
             /\ Call([op |-> "create", name |-> name, to |-> NoName],
                     Returned(content, {Relative(notesDir, filepath)}),
                     Hist("create", name, NoName, TRUE, NoPrev, content, {}))

createFolder(folderName) ==
    LET r == resolveSafePath(notesDir, folderName, FALSE)
        folderPath == r.path
        fs1 == MkdirP(fs, folderPath)
    IN  IF folderName.segs = <<>> THEN Fails("createFolder", folderName, NoName, "Invalid folder name")
        ELSE IF ~r.ok THEN Fails("createFolder", folderName, NoName, r.err)
        ELSE IF Exists(fs, folderPath)
             THEN Fails("createFolder", folderName, NoName, "Folder already exists")
        ELSE IF UnderFile(fs, folderPath) THEN Fails("createFolder", folderName, NoName, "EIO")
        ELSE /\ Store(fs1, previous, db, BuiltIndex(notesDir, fs1), now + 1)
             /\ Call([op |-> "createFolder", name |-> folderName, to |-> NoName],
                     Returned(NoContent, {Relative(notesDir, folderPath)}),
                     Hist("createFolder", folderName, NoName, TRUE, NoPrev, NoContent, {}))

(***************************************************************************)
(* Inputs of the calls and the workspaces the caller starts from           *)
(***************************************************************************)
MaxOps == 3

HandData == [NoData EXCEPT !["title"] = "t"]

WriteArgs ==
    {<<Rel(<<"a.md">>), Content(NoFM, "X")>>,
     <<Rel(<<"a.md">>), Content(NoFM, "Y")>>,
     <<Rel(<<"a.md">>), Content(NoFM, "L")>>,
     <<Rel(<<"a.md">>), Content(YamlFM(HandData, FALSE), "X")>>,
     <<Rel(<<"d", "a.md">>), Content(NoFM, "Y")>>,
     <<Rel(<<"a.txt">>), Content(YamlFM(HandData, FALSE), "X")>>,
     <<Rel(<<"a.txt">>), Content(NoFM, "Y")>>,
     <<Rel(<<META_DIRNAME, "a.md">>), Content(NoFM, "X")>>}

UndoNames == {Rel(<<"a.md">>), Rel(<<"d", "a.md">>), Rel(<<"d_a.md">>)}

DeleteNames == {Rel(<<"a.md">>), Rel(<<"d">>), Rel(<<META_DIRNAME>>)}

MovePairs ==
    {<<Rel(<<"a.md">>), Rel(<<"d", "a.md">>)>>,
     <<Rel(<<"a.md">>), Rel(<<"a.bin">>)>>,
     <<Rel(<<"d">>), Rel(<<"e">>)>>,
     <<Rel(<<"d">>), Rel(<<"d", "e">>)>>,
     \* handleRenameFolder("d") given the new name "d/e/b"
     <<Rel(<<"d">>), Rel(<<"d", "e", "b">>)>>,
     \* an absolute target in another directory
     <<Rel(<<"a.md">>), [abs |-> TRUE, segs |-> <<"w2", "a.md">>]>>}

CreateNames == {Rel(<<"a.md">>), Rel(<<"b">>), Rel(<<META_DIRNAME, "a.md">>)}

FolderNames == {Rel(<<"d">>), Rel(<<META_DIRNAME, "d">>)}

Queries == {"", " ", "X"}

\* names read: a note, a note of a folder, a folder, a name below a note, a
\* name above the workspace, a file of the metadata directory
ReadArgs ==
    {<<Rel(<<"a.md">>), FALSE>>, <<Rel(<<"d", "a.md">>), FALSE>>, <<Rel(<<"d">>), FALSE>>,
     <<Rel(<<"a.md", "b">>), FALSE>>, <<Rel(<<"..", "a.md">>), FALSE>>,
     <<Rel(<<META_DIRNAME, "a.md">>), FALSE>>, <<Rel(<<META_DIRNAME, "a.md">>), TRUE>>}

RECURSIVE FsOf(_)
FsOf(files) ==
    IF files = {} THEN MkdirP(<<>>, Root1)
    ELSE LET e == CHOOSE x \in files : TRUE
             rest == FsOf(files \ {e})
         IN  WriteNode(MkdirP(rest, Parent(Root1 \o e[1])), Root1 \o e[1], e[2])

InitFiles ==
    {{},
     {<<(<<"a.md">>), Content(YamlFM(HandData, FALSE), "X")>>,
      <<(<<"d", "a.md">>), Content(NoFM, "Y")>>},
     {<<(<<"a.md">>), Content(RawFM("r", FALSE), "Y")>>,
      <<(<<"a.txt">>), Content(NoFM, "X")>>,
      <<(<<"d", "a.md">>), Content(NoFM, "L")>>},
     {<<(<<".h.md">>), Content(NoFM, "X")>>,
      <<(<<".g", "a.md">>), Content(NoFM, "Y")>>,
      <<(<<META_DIRNAME, "a.md">>), Content(NoFM, "Y")>>,
      <<(<<"a.bin">>), Content(NoFM, "X")>>}}

\* a workspace of an earlier session: a.md was written over (its snapshot was
\* taken then), deleted, and written again with the content of that snapshot
EarlierFiles ==
    {<<(<<"a.md">>), Content(YamlFM(HandData, FALSE), "Y")>>,
     <<(<<"a.txt">>), Content(NoFM, "X")>>}

EarlierSnapshots ==
    WriteSnapshot(<<>>, PreviousKey(Root1, Rel(<<"a.md">>)), SnapName(-1, FALSE),
                  Content(YamlFM(HandData, FALSE), "Y"))

\* the state setNotesDir(Root1) leaves once its background rebuildIndex has run
Init ==
    /\ notesDir = Root1
    /\ \E files \in InitFiles \cup {EarlierFiles} :
          /\ fs = FsOf(files)
          /\ previous = IF files = EarlierFiles THEN EarlierSnapshots ELSE <<>>
    /\ searchIndexer = Root1
    /\ dbs = [r \in {Root1} |-> RebuildDb(EmptyDb, Root1, fs)]
    /\ cachedIndex = BuiltIndex(Root1, fs)
    /\ indexJson = [r \in {Root1} |-> cachedIndex]
    /\ tasks = <<>>
    /\ watcher = Root1
    /\ watcherTimer = 0
    /\ now = 0
    /\ arg = NoArg
    /\ ret = Thrown("pending")
    /\ pc = "idle"
    /\ last = NoLast

\* the caller has seen the outcome of a failed call or of a query
Return ==
    /\ pc = "reported"
    /\ pc' = "idle"
    /\ arg' = NoArg
    /\ ret' = Thrown("pending")
    /\ UNCHANGED <<notesDir, last, storeVars, searchIndexer, tasks, watcher, watcherTimer>>

WriteFile == \E w \in WriteArgs : pc = "idle" /\ now < MaxOps /\ writeFile(w[1], w[2])
UndoFile == \E f \in UndoNames : pc = "idle" /\ now < MaxOps /\ undoFile(f)
DeleteFile == \E f \in DeleteNames : pc = "idle" /\ now < MaxOps /\ deleteFile(f)
MoveFile == \E m \in MovePairs : pc = "idle" /\ now < MaxOps /\ moveFile(m[1], m[2])
CreateFile == \E f \in CreateNames : pc = "idle" /\ now < MaxOps /\ createFile(f)
CreateFolder == \E f \in FolderNames : pc = "idle" /\ now < MaxOps /\ createFolder(f)
RebuildIndex == pc = "idle" /\ now < MaxOps /\ rebuildIndex
SearchQuery == \E q \in Queries : pc = "idle" /\ now < MaxOps /\ search(q)
ListFiles ==
    \E includeHidden, includeMeta \in BOOLEAN :
        pc = "idle" /\ now < MaxOps /\ listFiles(includeHidden, includeMeta)

ReadFile == \E r \in ReadArgs : pc = "idle" /\ now < MaxOps /\ readFile(r[1], r[2])

Next ==
    \/ WriteFile
    \/ UndoFile
    \/ DeleteFile
    \/ MoveFile
    \/ CreateFile
    \/ CreateFolder
    \/ RebuildIndex
    \/ SearchQuery
    \/ ListFiles
    \/ ReadFile
    \/ Return

Spec == Init /\ [][Next]_vars

(***************************************************************************)
(* Calls in flight.  An async function runs to its next await and then     *)
(* gives way; a task is a call stopped at an await, and each step below is *)
(* the code between two awaits.  Statements on the database are            *)
(* synchronous (better-sqlite3), so they run inside one step.              *)
(***************************************************************************)
MaxTasks == 2
MaxCalls == 3
MaxEvents == 3
MaxTime == 6
DebounceTicks == 2

Idle ==
    [op |-> "idle", pc |-> "idle", name |-> NoName, content |-> NoContent,
     path |-> <<>>, prev |-> NoPrev, indexer |-> NoRoot, read |-> NoPrev,
     root |-> NoRoot, tree |-> {}, todo |-> {}]

Free(i) == tasks[i].op = "idle"

FreeSlots == {i \in DOMAIN tasks : Free(i)}

Quiescent == FreeSlots = DOMAIN tasks

\* the calls issued so far, the most recent first; a write adds a second
\* record, op "persist", when it replaces the document
Issued == {k \in DOMAIN last : last[k].op \notin {"persist", "fsevent"}}

\* the watcher events so far
FsEvents == {k \in DOMAIN last : last[k].op = "fsevent"}

Event(op, path, out) == [op |-> op, path |-> path, out |-> out, at |-> now]

Log(e) == last' = <<e>> \o last

\* a call is issued dt ticks from now: it takes a slot
StartAfter(t, dt) ==
    /\ FreeSlots # {}
    /\ Cardinality(Issued) < MaxCalls
    /\ LET i == CHOOSE j \in FreeSlots : \A k \in FreeSlots : j <= k
       IN  tasks' = [tasks EXCEPT ![i] = t]
    /\ now' = now + dt

\* a call is issued: it takes a slot and the clock moves on
Start(t) == StartAfter(t, 1)

Set(i, t) == tasks' = [tasks EXCEPT ![i] = t]

\* readdir entries of a directory that indexDirectory goes on with
WalkEntries(fsys, dir) ==
    {q \in DOMAIN fsys :
        /\ q # <<>> /\ Parent(q) = dir
        /\ (IsDir(fsys, q) => ~Hidden(LastSeg(q)))}

\* fs.stat and fs.readFile of indexFile
ReadForIndex(fsys, p) ==
    IF IsFile(fsys, p) THEN [some |-> TRUE, c |-> fsys[p].content] ELSE NoPrev

\* where a call goes on once indexFile has returned
AfterIndexFile(t) ==
    CASE t.op = "write"  -> [t EXCEPT !.pc = "scan"]
      [] t.op = "index"  -> Idle
      [] OTHER           -> [t EXCEPT !.pc = "walk"]

\* indexFile up to its last await: stat, the two checks, readFile
IndexRead(i) ==
    LET t == tasks[i]
    IN  /\ t.pc = "indexRead"
        /\ IF t.indexer = NoRoot
           THEN Set(i, AfterIndexFile(t))
           ELSE LET r == ReadForIndex(fs, t.path)
                IN  IF r.some /\ ~Skipped(t.path, r.c)
                    THEN Set(i, [t EXCEPT !.pc = "indexDb", !.read = r])
                    ELSE Set(i, AfterIndexFile(t))
        /\ UNCHANGED <<callVars, wsVars, storeVars>>

\* indexFile after its last await: upsert, delete and insert of the entry
IndexDb(i) ==
    LET t == tasks[i]
    IN  /\ t.pc = "indexDb"
        /\ dbs' = [dbs EXCEPT ![t.indexer] = UpsertDb(@, t.indexer, t.path, t.read.c)]
        /\ Set(i, AfterIndexFile([t EXCEPT !.read = NoPrev]))
        /\ UNCHANGED <<callVars, wsVars, fs, previous, cachedIndex, indexJson, now>>

\* indexDirectory: one entry of the walk, a directory read or a file
\* handed to indexFile; rebuildIndex returns when nothing is left
Walk(i) ==
    LET t == tasks[i]
    IN  /\ t.pc = "walk"
        /\ IF t.todo = {} THEN Set(i, Idle)
           ELSE \E p \in t.todo :
                   IF IsDir(fs, p)
                   THEN Set(i, [t EXCEPT !.todo = (@ \ {p}) \cup WalkEntries(fs, p)])
                   ELSE Set(i, [t EXCEPT !.todo = @ \ {p}, !.pc = "indexRead",
                                         !.path = p])
        /\ UNCHANGED <<callVars, wsVars, storeVars>>

\* rebuildIndex up to its first await: both tables are emptied in one exec
ClearDb(d) == [d EXCEPT !.files = {}, !.fts = {}]

Rebuilding(t, workspaceDir) ==
    [t EXCEPT !.pc = "walk", !.indexer = workspaceDir, !.todo = {workspaceDir},
              !.path = <<>>]

(***************************************************************************)
(* IndexSpec: the SearchIndexer of one workspace under calls of indexFile, *)
(* removeFile and rebuildIndex that overlap, while files change on disk    *)
(***************************************************************************)
IndexPaths == {Root1 \o <<"a.md">>, Root1 \o <<"d", "a.md">>}

IndexContents == {Content(NoFM, "X"), Content(NoFM, "Y")}

IndexInit ==
    /\ notesDir = Root1
    /\ fs = FsOf({<<(<<"a.md">>), Content(NoFM, "X")>>})
    /\ previous = <<>>
    /\ searchIndexer = Root1
    /\ dbs = [r \in {Root1} |-> RebuildDb(EmptyDb, Root1, fs)]
    /\ cachedIndex = BuiltIndex(Root1, fs)
    /\ indexJson = [r \in {Root1} |-> cachedIndex]
    /\ tasks = [i \in 1..MaxTasks |-> Idle]
    /\ watcher = Root1
    /\ watcherTimer = 0
    /\ now = 0
    /\ arg = NoArg
    /\ ret = Thrown("pending")
    /\ pc = "idle"
    /\ last = NoLast

\* searchIndexer.indexFile(p) is called
CallIndexFile ==
    \E p \in IndexPaths :
        /\ Start([Idle EXCEPT !.op = "index", !.pc = "indexRead", !.path = p,
                              !.indexer = searchIndexer])
        /\ Log(Event("index", p, NoContent))
        /\ UNCHANGED <<arg, ret, pc, wsVars, fs, previous, dbs, cachedIndex, indexJson>>

\* searchIndexer.removeFile(p) is called; it has no await
CallRemoveFile ==
    \E p \in IndexPaths :
        /\ Cardinality(Issued) < MaxCalls
        /\ dbs' = [dbs EXCEPT ![searchIndexer] = RemoveFileDb(@, searchIndexer, p)]
        /\ now' = now + 1
        /\ Log(Event("remove", p, NoContent))
        /\ UNCHANGED <<arg, ret, pc, wsVars, fs, previous, cachedIndex, indexJson, tasks>>

\* searchIndexer.rebuildIndex() is called
CallRebuildIndex ==
    /\ Start(Rebuilding(Idle, searchIndexer))
    /\ dbs' = [dbs EXCEPT ![searchIndexer] = ClearDb(@)]
    /\ Log(Event("reindex", searchIndexer, NoContent))
    /\ UNCHANGED <<arg, ret, pc, wsVars, fs, previous, cachedIndex, indexJson>>

\* a file of the workspace is written or removed on disk
EditFile ==
    \E p \in IndexPaths, c \in IndexContents :
        /\ Cardinality(Issued) < MaxCalls
        /\ ~(IsFile(fs, p) /\ fs[p].content = c)
        /\ fs' = WriteNode(MkdirP(fs, Parent(p)), p, c)
        /\ Log(Event("edit", p, c))
        /\ UNCHANGED <<arg, ret, pc, wsVars, previous, dbs, cachedIndex, indexJson, now, tasks>>

UnlinkFile ==
    \E p \in IndexPaths :
        /\ Cardinality(Issued) < MaxCalls
        /\ IsFile(fs, p)
        /\ fs' = RemoveTree(fs, p)
        /\ Log(Event("unlink", p, NoContent))
        /\ UNCHANGED <<arg, ret, pc, wsVars, previous, dbs, cachedIndex, indexJson, now, tasks>>

IndexReadStep == \E i \in DOMAIN tasks : IndexRead(i)
IndexDbStep == \E i \in DOMAIN tasks : IndexDb(i)
WalkStep == \E i \in DOMAIN tasks : Walk(i)

IndexNext ==
    \/ CallIndexFile
    \/ CallRemoveFile
    \/ CallRebuildIndex
    \/ EditFile
    \/ UnlinkFile
    \/ IndexReadStep
    \/ IndexDbStep
    \/ WalkStep

IndexSpec == IndexInit /\ [][IndexNext]_vars

\* the ids of the records and the rowids of the full-text entries
FileIds(d) == {f.id : f \in d.files}
FtsRowsOf(d, id) == {r \in d.fts : r.rowid = id}

OneToOne(d) ==
    /\ \A f \in d.files : Cardinality(FtsRowsOf(d, f.id)) = 1
    /\ \A r \in d.fts : r.rowid \in FileIds(d)
    /\ \A f, g \in d.files : f.id = g.id => f = g

\* C4: in every state reached through overlapping calls of indexFile,
\* removeFile and rebuildIndex, every document record has exactly one
\* full-text entry with its id as rowid, and every full-text entry has a
\* document record
C4_RecordsMatchEntries == \A r \in DOMAIN dbs : OneToOne(dbs[r])

\* an indexFile of a rebuild is about to write while a record written since
\* the rebuild emptied the tables is in the index
C4_Witness ==
    \E i \in DOMAIN tasks :
        /\ tasks[i].pc = "indexDb"
        /\ \E k \in DOMAIN last : last[k].op = "reindex"
        /\ \E k \in DOMAIN last : last[k].op = "remove"
        /\ dbs[Root1].files # {}
        /\ dbs[Root1].seq > 1

(***************************************************************************)
(* ConcSpec: calls of the file manager that overlap.  The renderer issues  *)
(* a call without waiting for the one before it, the watcher timer starts  *)
(* buildIndex on its own, and setNotesDir changes the workspace while      *)
(* calls made in the old one are still at an await.                        *)
(***************************************************************************)
ConcWrites ==
    {<<Rel(<<"a.md">>), Content(NoFM, "X")>>,
     <<Rel(<<"a.md">>), Content(NoFM, "Y")>>}

ConcDeletes == {Rel(<<"a.md">>)}

OpenDirs == {Root2}

\* the names fs.watch reports: a note, a file of the metadata directory, a
\* file of a directory deeper down that has the name of the metadata
\* directory, and no name
WatchNames ==
    {Rel(<<"b.md">>), Rel(<<META_DIRNAME, "a.md">>), Rel(<<"d", META_DIRNAME, "a.md">>),
     NoName}

ConcInit ==
    /\ notesDir = Root1
    /\ fs = WriteNode(MkdirP(FsOf({<<(<<"a.md">>), Content(NoFM, "Z")>>}), Root2),
                      Root2 \o <<"b.md">>, Content(NoFM, "X"))
    /\ previous = <<>>
    /\ searchIndexer = Root1
    /\ dbs = [r \in {Root1} |-> RebuildDb(EmptyDb, Root1, fs)]
    /\ cachedIndex = BuiltIndex(Root1, fs)
    /\ indexJson = [r \in {Root1} |-> cachedIndex]
    /\ tasks = [i \in 1..MaxTasks |-> Idle]
    /\ watcher = Root1
    /\ watcherTimer = 0
    /\ now = 0
    /\ arg = NoArg
    /\ ret = Thrown("pending")
    /\ pc = "idle"
    /\ last = NoLast

\* ipc 'file:write': writeFile is called and stops at ensureNotesDir
CallWriteFile ==
    \E w \in ConcWrites :
        /\ Start([Idle EXCEPT !.op = "write", !.pc = "read", !.name = w[1],
                              !.content = w[2]])
        /\ Log(Event("write", w[1].segs, w[2]))
        /\ UNCHANGED <<arg, ret, pc, wsVars, fs, previous, dbs, cachedIndex, indexJson>>

\* ipc 'file:delete': deleteFile resolves the name and stops at lstat
CallDeleteFile ==
    \E f \in ConcDeletes :
        LET r == resolveSafePath(notesDir, f, FALSE)
        IN  /\ r.ok
            /\ Start([Idle EXCEPT !.op = "delete", !.pc = "unlink", !.name = f,
                                  !.path = r.path])
            /\ Log(Event("delete", f.segs, NoContent))
            /\ UNCHANGED <<arg, ret, pc, wsVars, fs, previous, dbs, cachedIndex, indexJson>>

\* ipc 'search:reindex'
CallReindex ==
    /\ searchIndexer # NoRoot
    /\ Start(Rebuilding(Idle, searchIndexer))
    /\ dbs' = [dbs EXCEPT ![searchIndexer] = ClearDb(@)]
    /\ Log(Event("reindex", searchIndexer, NoContent))
    /\ UNCHANGED <<arg, ret, pc, wsVars, fs, previous, cachedIndex, indexJson>>

\* setNotesDir(dir): notesDir is assigned before the first await
CallSetNotesDir ==
    \E dir \in OpenDirs :
        /\ notesDir # dir
        /\ Start([Idle EXCEPT !.op = "open", !.pc = "scan"])
        /\ notesDir' = dir
        /\ Log(Event("open", dir, NoContent))
        /\ UNCHANGED <<arg, ret, pc, searchIndexer, watcher, watcherTimer,
                       fs, previous, dbs, cachedIndex, indexJson>>

\* an edit made outside the application on the file the watcher will name:
\* the file is created, or removed when it is there
ExternalEdit(fsys, filename) ==
    IF filename = NoName THEN fsys
    ELSE LET p == Resolve(watcher, filename)
         IN  IF IsFile(fsys, p) THEN RemoveTree(fsys, p)
             ELSE WriteNode(MkdirP(fsys, Parent(p)), p, Content(NoFM, "X"))

\* a callback that leaves a pending timeout as it is
ResetTimer_KeepPending(timer) == IF timer > 0 THEN timer ELSE DebounceTicks

\* startWatcher lines 1393-1396: clearTimeout, then setTimeout(..., 250)
ResetTimer(timer) == DebounceTicks

\* the fs.watch callback, lines 1389-1397, for the filename it is given
\* (NoName: none); the value of watcherTimer when it returns
TimerAfterEvent(filename) ==
    IF filename = NoName THEN watcherTimer
    ELSE IF isMetaPath(notesDir, Resolve(notesDir, filename)) THEN watcherTimer
    ELSE ResetTimer(watcherTimer)

\* the callback for a change the application itself made at path p
TimerAfterChange(p) ==
    IF watcher # NoRoot /\ IsPrefix(watcher, p)
    THEN TimerAfterEvent(Rel(Relative(watcher, p)))
    ELSE watcherTimer

\* a file changes outside the application and fs.watch reports it
FsEvent ==
    \E filename \in WatchNames :
        /\ watcher # NoRoot
        /\ Cardinality(FsEvents) < MaxEvents
        /\ fs' = ExternalEdit(fs, filename)
        /\ watcherTimer' = TimerAfterEvent(filename)
        /\ Log(Event("fsevent", filename.segs, NoContent))
        /\ UNCHANGED <<arg, ret, pc, notesDir, searchIndexer, watcher,
                       previous, dbs, cachedIndex, indexJson, now, tasks>>

\* the delay of the pending timeout runs out: buildIndex is called
TimerFire ==
    /\ watcherTimer > 0
    /\ StartAfter([Idle EXCEPT !.op = "build", !.pc = "scan"], watcherTimer)
    /\ watcherTimer' = 0
    /\ Log([Event("build", notesDir, NoContent) EXCEPT !.at = now + watcherTimer])
    /\ UNCHANGED <<arg, ret, pc, notesDir, searchIndexer, watcher,
                   fs, previous, dbs, cachedIndex, indexJson>>

\* writeFile lines 355-364: the name is resolved, the document is read
ReadStep ==
    \E i \in DOMAIN tasks :
        LET t == tasks[i]
            r == resolveSafePath(notesDir, t.name, FALSE)
        IN  /\ t.pc = "read"
            /\ IF ~r.ok \/ Unreadable(fs, r.path)
               THEN Set(i, Idle)
               ELSE Set(i, [t EXCEPT !.pc = "snapshot", !.path = r.path,
                                     !.prev = ReadPrev(fs, r.path)])
            /\ UNCHANGED <<callVars, wsVars, storeVars>>

\* writeFile lines 366-400: the front-matter policy and the snapshot of
\* what was read
SnapshotStep ==
    \E i \in DOMAIN tasks :
        LET t == tasks[i]
            final == ApplyWritePolicy(t.name, t.content, t.prev, now)
        IN  /\ t.pc = "snapshot"
            /\ Set(i, [t EXCEPT !.pc = "persist", !.content = final])
            /\ IF NeedsSnapshot(t.prev, final)
               THEN /\ previous' = WriteSnapshot(previous, PreviousKey(notesDir, t.name),
                                                 SnapName(now, FALSE), t.prev.c)
                    /\ now' = now + 1
               ELSE UNCHANGED <<previous, now>>
            /\ UNCHANGED <<callVars, wsVars, fs, dbs, cachedIndex, indexJson>>

\* writeFile lines 402-406: the document is replaced, indexFile is called
PersistStep ==
    \E i \in DOMAIN tasks :
        LET t == tasks[i]
        IN  /\ t.pc = "persist"
            /\ fs' = WriteNode(MkdirP(fs, Parent(t.path)), t.path, t.content)
            /\ Log(Event("persist", t.path, t.content))
            /\ Set(i, [t EXCEPT !.pc = "indexRead", !.indexer = searchIndexer])
            /\ watcherTimer' = TimerAfterChange(t.path)
            /\ UNCHANGED <<arg, ret, pc, notesDir, searchIndexer, watcher,
                           previous, dbs, cachedIndex, indexJson, now>>

\* deleteFile lines 534-539
UnlinkStep ==
    \E i \in DOMAIN tasks :
        LET t == tasks[i]
        IN  /\ t.pc = "unlink"
            /\ IF Exists(fs, t.path)
               THEN /\ fs' = RemoveTree(fs, t.path)
                    /\ watcherTimer' = TimerAfterChange(t.path)
                    /\ Set(i, [t EXCEPT !.pc = "removeDb"])
               ELSE /\ Set(i, Idle)
                    /\ UNCHANGED <<fs, watcherTimer>>
            /\ UNCHANGED <<callVars, notesDir, searchIndexer, watcher,
                           previous, dbs, cachedIndex, indexJson, now>>

\* deleteFile lines 542-546
RemoveDbStep ==
    \E i \in DOMAIN tasks :
        LET t == tasks[i]
        IN  /\ t.pc = "removeDb"
            /\ dbs' = IF searchIndexer = NoRoot THEN dbs
                      ELSE [dbs EXCEPT ![searchIndexer] =
                                RemoveFileDb(@, searchIndexer, t.path)]
            /\ Set(i, [t EXCEPT !.pc = "scan"])
            /\ UNCHANGED <<callVars, wsVars, fs, previous, cachedIndex, indexJson, now>>

\* buildIndex lines 1305-1307: scanDir walks the notesDir of this moment
ScanStep ==
    \E i \in DOMAIN tasks :
        LET t == tasks[i]
        IN  /\ t.pc = "scan"
            /\ Set(i, [t EXCEPT !.pc = "install", !.root = notesDir,
                                !.tree = ScanDir(notesDir, fs)])
            /\ UNCHANGED <<callVars, wsVars, storeVars>>

\* buildIndex lines 1308-1310: the tree scanned is assigned to cachedIndex
InstallStep ==
    \E i \in DOMAIN tasks :
        LET t == tasks[i]
        IN  /\ t.pc = "install"
            /\ cachedIndex' = IndexOf(t.root, t.tree)
            /\ Set(i, [t EXCEPT !.pc = "save", !.tree = {}, !.root = NoRoot])
            /\ UNCHANGED <<callVars, wsVars, fs, previous, dbs, indexJson, now>>

\* buildIndex lines 1312-1319: cachedIndex is written to index.json of the
\* notesDir of this moment
SaveStep ==
    \E i \in DOMAIN tasks :
        LET t == tasks[i]
        IN  /\ t.pc = "save"
            /\ indexJson' = [r \in DOMAIN indexJson \cup {notesDir} |->
                                IF r = notesDir THEN cachedIndex ELSE indexJson[r]]
            /\ Set(i, IF t.op = "open" THEN [t EXCEPT !.pc = "watch"] ELSE Idle)
            /\ UNCHANGED <<callVars, wsVars, fs, previous, dbs, cachedIndex, now>>

\* setNotesDir lines 199-201, initializeSearchIndexer lines 227-228
WatchStep ==
    \E i \in DOMAIN tasks :
        LET t == tasks[i]
        IN  /\ t.pc = "watch"
            /\ watcher' = notesDir
            /\ watcherTimer' = 0
            /\ searchIndexer' = notesDir
            /\ dbs' = [r \in DOMAIN dbs \cup {notesDir} |->
                          IF r \in DOMAIN dbs THEN dbs[r] ELSE EmptyDb]
            /\ Set(i, [t EXCEPT !.pc = "rebuild"])
            /\ UNCHANGED <<callVars, notesDir, fs, previous, cachedIndex, indexJson, now>>

\* initializeSearchIndexer lines 230-232: the setImmediate callback
RebuildStep ==
    \E i \in DOMAIN tasks :
        LET t == tasks[i]
        IN  /\ t.pc = "rebuild"
            /\ dbs' = [dbs EXCEPT ![searchIndexer] = ClearDb(@)]
            /\ Set(i, Rebuilding(t, searchIndexer))
            /\ UNCHANGED <<callVars, wsVars, fs, previous, cachedIndex, indexJson, now>>

ConcNext ==
    \/ CallWriteFile
    \/ CallDeleteFile
    \/ CallReindex
    \/ CallSetNotesDir
    \/ TimerFire
    \/ ReadStep
    \/ SnapshotStep
    \/ PersistStep
    \/ UnlinkStep
    \/ RemoveDbStep
    \/ IndexReadStep
    \/ IndexDbStep
    \/ ScanStep
    \/ InstallStep
    \/ SaveStep
    \/ WatchStep
    \/ RebuildStep
    \/ WalkStep

ConcSpec == ConcInit /\ [][ConcNext]_vars

(***************************************************************************)
(* Properties of overlapping calls (ConcSpec)                              *)
(***************************************************************************)
\* setNotesDir(Root2) has been called and its buildIndex has returned
Switched ==
    /\ notesDir = Root2
    /\ \A i \in DOMAIN tasks :
          tasks[i].op = "open" => tasks[i].pc \notin {"scan", "install", "save"}

\* C5: once setNotesDir(newRoot) has installed the tree of the new workspace,
\* the cached tree and the index.json of the new workspace hold a tree that
\* was scanned from newRoot, whatever rebuild started before the switch
\* completes after it
C5_StaleRebuildIgnored ==
    Switched =>
        /\ cachedIndex.root = notesDir
        /\ indexJson[notesDir].root = notesDir

\* the calls issued were two writes of the same document and nothing else
TwoWrites ==
    /\ Cardinality({k \in DOMAIN last : last[k].op = "write"}) = 2
    /\ \A k \in DOMAIN last : last[k].op \in {"write", "persist"}
    /\ Quiescent

\* every content a document had: what the writes persisted and what it held
\* at the start
Persisted(p) ==
    {last[k].out : k \in {j \in DOMAIN last : last[j].op = "persist" /\ last[j].path = p}}

Snapshotted(key) ==
    IF key \in DOMAIN previous
    THEN {previous[key][n] : n \in DOMAIN previous[key]}
    ELSE {}

\* C6: when two writes of one document issued without waiting for each
\* other have both returned, every content that was overwritten is held by a
\* snapshot, and the index entry of the document was made from the content
\* on disk
C6_NoLostUpdate ==
    TwoWrites =>
        LET p == Root1 \o <<"a.md">>
            key == PreviousKey(Root1, Rel(<<"a.md">>))
        IN  /\ \A c \in Persisted(p) \cup {Content(NoFM, "Z")} :
                  c = fs[p].content \/ c \in Snapshotted(key)
            /\ \A f \in RecordsAt(dbs[Root1], <<"a.md">>) :
                  \A r \in FtsRowsOf(dbs[Root1], f.id) :
                      r.content = IndexedBody(fs[p].content, ".md")

\* every call has returned, no timeout is pending, and the workspace was
\* not changed: nothing will start a rebuild any more
Settled ==
    /\ Quiescent
    /\ watcherTimer = 0
    /\ \A k \in DOMAIN last : last[k].op # "open"

\* C15: once the mutations have stopped and every rebuild that was started,
\* by a call or by the watcher, has completed, the cached tree is the tree of
\* the workspace directory as it is on disk
C15_LastRebuildReflectsDisk ==
    Settled => cachedIndex.tree = ScanDir(notesDir, fs)

\* C16: in no state does notesDir name the new workspace while the cached
\* tree, the watcher or the search indexer are still those of the old one
C16_ResetBeforeInstall ==
    notesDir = Root2 =>
        /\ cachedIndex.root # Root1
        /\ watcher # Root1
        /\ searchIndexer # Root1

(***************************************************************************)
(* WatchSpec: the watcher of one open workspace with time.  A tick is a    *)
(* part of the 250 ms delay; the timeout runs when its delay has passed.   *)
(***************************************************************************)
WatchInit == ConcInit

\* time passes and no timeout is due
Tick ==
    /\ now < MaxTime
    /\ watcherTimer # 1
    /\ now' = now + 1
    /\ watcherTimer' = IF watcherTimer > 1 THEN watcherTimer - 1 ELSE 0
    /\ UNCHANGED <<callVars, notesDir, searchIndexer, watcher,
                   fs, previous, dbs, cachedIndex, indexJson, tasks>>

WatchNext ==
    \/ FsEvent
    \/ Tick
    \/ TimerFire
    \/ ScanStep
    \/ InstallStep
    \/ SaveStep

WatchSpec == WatchInit /\ [][WatchNext]_vars

\* the rebuilds the watcher started
WatcherBuilds == {k \in DOMAIN last : last[k].op = "build"}

\* the events outside <root>/.x0v3rt, and those whose name has no segment
\* ".x0v3rt"
OutsideMeta ==
    {k \in FsEvents : last[k].path # <<>> /\ last[k].path[1] # META_DIRNAME}
NoMetaSegment ==
    {k \in FsEvents : last[k].path # <<>> /\ META_DIRNAME \notin Range(last[k].path)}

\* the time of the event of K that follows event k, or the present time
NextAt(K, k) ==
    IF \E j \in K : j < k
    THEN last[CHOOSE j \in K : j < k /\ \A i \in K : i < k => i <= j].at
    ELSE now

\* the bursts of K that are over: each ends with an event that no event of K
\* followed within the delay
BurstEnds(K) == {k \in K : NextAt(K, k) - last[k].at >= DebounceTicks}

MetaEventStep ==
    /\ Len(last') = Len(last) + 1
    /\ last'[1].op = "fsevent"
    /\ last'[1].path # <<>>
    /\ last'[1].path[1] = META_DIRNAME

\* C14: the callback of an event inside the metadata subtree leaves the
\* timer as it is and starts nothing, and the watcher has never started more
\* rebuilds than there were events outside the metadata subtree
C14_MetaEventsIgnored ==
    /\ [][MetaEventStep => (watcherTimer' = watcherTimer /\ tasks' = tasks)]_vars
    /\ [](Cardinality(WatcherBuilds) <= Cardinality(OutsideMeta))

\* an event inside the metadata subtree has just arrived while a timeout
\* set by an earlier event has part of its delay left
C14_Witness ==
    /\ LastIs(1, "fsevent")
    /\ last[1].path # <<>> /\ last[1].path[1] = META_DIRNAME
    /\ last[1].at = now
    /\ watcherTimer = 1
    /\ \E e \in OutsideMeta : last[e].at < now

(***************************************************************************)
(* PathSpec: resolveSafePath applied to every bounded argument.            *)
(***************************************************************************)
PathSegs == {"..", "a.md", "d", "w2", ".x0v3rt"}

RECURSIVE SeqsUpTo(_, _)
SeqsUpTo(S, n) ==
    IF n = 0 THEN {<<>>}
    ELSE LET shorter == SeqsUpTo(S, n - 1)
         IN  shorter \cup {Append(q, s) : q \in shorter, s \in S}

PathArgs ==
    [name : [abs : BOOLEAN, segs : SeqsUpTo(PathSegs, MaxNameLen)], allowMeta : BOOLEAN]

PathInit ==
    /\ notesDir = Root1
    /\ arg \in PathArgs
    /\ ret = Err("pending")
    /\ pc = "idle"
    /\ fs = MkdirP(<<>>, Root1)
    /\ previous = <<>>
    /\ searchIndexer = NoRoot
    /\ dbs = <<>>
    /\ cachedIndex = NoIndex
    /\ indexJson = <<>>
    /\ tasks = <<>>
    /\ watcher = NoRoot
    /\ watcherTimer = 0
    /\ now = 0
    /\ last = NoLast

ResolveCall ==
    /\ pc = "idle"
    /\ ret' = resolveSafePath(notesDir, arg.name, arg.allowMeta)
    /\ pc' = "done"
    /\ UNCHANGED <<notesDir, arg, last, storeVars, searchIndexer, tasks, watcher, watcherTimer>>

PathNext == ResolveCall

PathSpec == PathInit /\ [][PathNext]_vars

HasDotDot(name) == ".." \in Range(name.segs)

InsideRoot(root, p) == IsPrefix(root, p)

\* C1: every name with a `..` segment, or resolving to something that is
\* neither the root nor a true descendant of it, fails with the invalid-path
\* error and yields no path.
C1_EscapeRejected ==
    (pc = "done" /\ (HasDotDot(arg.name)
                     \/ ~InsideRoot(notesDir, Resolve(notesDir, arg.name))))
        => (~ret.ok /\ ret.err = "Invalid filename")

\* the name resolves to the metadata directory of the root or below it
InMetaSubtree(root, name) ==
    IsPrefix(root \o <<META_DIRNAME>>, Resolve(root, Normalize(name)))

C1_NoPathOutsideRoot ==
    (pc = "done" /\ ret.ok) => InsideRoot(notesDir, ret.path)


(***************************************************************************)
(* Properties of the sequential store (Spec)                               *)
(***************************************************************************)
AbsOf(name) == Resolve(notesDir, name)
RelOf(name) == Relative(notesDir, Resolve(notesDir, name))

\* every word some row of the index can be found by, and the model's queries
SearchTerms == Queries \cup UNION {RowTerms(r) : r \in db.fts}


WriteWriteUndo ==
    /\ LastIs(1, "undo") /\ LastIs(2, "write") /\ LastIs(3, "write")
    /\ last[1].name = last[2].name /\ last[2].name = last[3].name
    /\ last[3].prev.some
    /\ last[2].out # last[3].out

\* C2: when an existing document is written twice with different content and
\* then undone, the second write created exactly one snapshot, holding the
\* content the first write persisted, and the undo leaves the document with
\* that content and returns it.
C2_UndoRestoresFirstWrite ==
    WriteWriteUndo =>
        LET key == PreviousKey(notesDir, last[1].name)
            created == last[1].snaps \ last[2].snaps
        IN  /\ last[2].snaps \subseteq last[1].snaps
            /\ Cardinality(created) = 1
            /\ \A n \in created : previous[key][n] = last[3].out
            /\ last[1].out = last[3].out
            /\ IsFile(fs, AbsOf(last[1].name))
            /\ fs[AbsOf(last[1].name)].content = last[3].out
            /\ (arg.op = "undo" /\ ret.ok => ret.content = last[3].out)

C2_Witness == WriteWriteUndo /\ arg.op = "undo" /\ ret.ok

IdenticalWrite ==
    LastIs(1, "write") /\ last[1].prev.some /\ last[1].prev.c = last[1].out

\* C3: a write whose persisted content equals the content already on disk
\* leaves the number (indeed the set) of snapshots of the document unchanged.
C3_IdenticalWriteNoSnapshot ==
    IdenticalWrite =>
        SnapshotsOf(previous, PreviousKey(notesDir, last[1].name)) = last[1].snaps

C3_Witness == IdenticalWrite /\ arg.op = "write"

DeletedIndexedFile == LastIs(1, "delete") /\ ~last[1].wasDir /\ last[1].rec # {}

\* C7: after delete of an indexed file the index has no record and no
\* full-text entry for it, and no search returns its path.
C7_DeleteRemovesIndexEntry ==
    DeletedIndexedFile =>
        /\ RecordsAt(db, RelOf(last[1].name)) = {}
        /\ \A f \in last[1].rec : \A r \in db.fts : r.rowid # f.id
        /\ \A q \in SearchTerms : RelOf(last[1].name) \notin Search(db, q)
        /\ (arg.op = "search" => RelOf(last[1].name) \notin ret.paths)

C7_Witness ==
    DeletedIndexedFile /\ arg.op = "search" /\ arg.query \in {c.body : c \in {last[1].prev.c}}

\* C8: after delete of a directory the index has no record and no full-text
\* entry for any file that was inside it.
C8_DirDeleteClearsIndex ==
    (LastIs(1, "delete") /\ last[1].wasDir) =>
        /\ \A f \in db.files : ~IsPrefix(RelOf(last[1].name), f.path)
        /\ \A r \in db.fts : \E f \in db.files : f.id = r.rowid

MovedIndexedFile == LastIs(1, "move") /\ ~last[1].wasDir /\ last[1].rec # {}

MovedTerm == last[1].prev.c.body

\* C9 as claimed: after the move of an indexed file the index has a record for
\* the target path and none for the source path, and a search for the file's
\* content returns the new path and never the old one.
C9_MoveReindexes ==
    MovedIndexedFile =>
        /\ RecordsAt(db, RelOf(last[1].to)) # {}
        /\ RecordsAt(db, RelOf(last[1].name)) = {}
        /\ (MovedTerm # "" => RelOf(last[1].to) \in Search(db, MovedTerm))
        /\ \A q \in SearchTerms : RelOf(last[1].name) \notin Search(db, q)

\* indexFile accepts the moved file at its target
TargetIndexable ==
    /\ ExtName(LastSeg(AbsOf(last[1].to))) \in TEXT_EXTENSIONS
    /\ ~IsLarge(last[1].prev.c)

\* C9 amended: after the move of an indexed file the index has no record for
\* the source path and no search returns it; when the target has a recognized
\* text extension and the file is at most 1 MiB, the index has a record for
\* the target path and a search for the file's content returns the new path.
C9_MoveReindexesIndexable ==
    MovedIndexedFile =>
        /\ RecordsAt(db, RelOf(last[1].name)) = {}
        /\ \A q \in SearchTerms : RelOf(last[1].name) \notin Search(db, q)
        /\ TargetIndexable =>
              /\ RecordsAt(db, RelOf(last[1].to)) # {}
              /\ (MovedTerm # "" => RelOf(last[1].to) \in Search(db, MovedTerm))

C9_Witness == MovedIndexedFile /\ TargetIndexable /\ MovedTerm # ""

\* C10: after a successful undo the index entry of the document holds the
\* content now on disk.
C10_UndoReindexes ==
    LastIs(1, "undo") =>
        \A f \in RecordsAt(db, RelOf(last[1].name)) :
            \E r \in db.fts :
                /\ r.rowid = f.id
                /\ r.content = IndexedBody(fs[AbsOf(last[1].name)].content,
                                           ExtName(LastSeg(AbsOf(last[1].name))))

\* the files of the workspace, those indexFile accepts, and those that lie
\* under a directory whose name starts with "."
WorkspaceFiles == {p \in DOMAIN fs : IsFile(fs, p) /\ IsPrefix(notesDir, p)}
Eligible == {p \in WorkspaceFiles : ~Skipped(p, fs[p].content)}
InHiddenDir(p) == \E i \in (Len(notesDir) + 1)..(Len(p) - 1) : Hidden(p[i])

\* C11 as claimed: after rebuildIndex the index has as many document records
\* as the workspace has files of at most 1 MiB with a recognized text
\* extension
C11_RebuildCountsEligible ==
    LastIs(1, "reindex") => Cardinality(db.files) = Cardinality(Eligible)

\* C11 amended: after rebuildIndex, whatever the index held before, the
\* document records are exactly one per file of at most 1 MiB with a
\* recognized text extension that is not under a hidden directory
C11_RebuildCountsWalked ==
    LastIs(1, "reindex") =>
        /\ {f.path : f \in db.files} =
               {Relative(notesDir, p) : p \in {q \in Eligible : ~InHiddenDir(q)}}
        /\ Cardinality(db.files) = Cardinality({q \in Eligible : ~InHiddenDir(q)})

\* a rebuild of a workspace with eligible and ineligible files, after a call
\* that left a record of a file that is gone
C11_Witness ==
    /\ LastIs(1, "reindex") /\ LastIs(2, "delete") /\ last[2].wasDir
    /\ db.files # {}
    /\ Eligible # WorkspaceFiles

\* C12: after rebuildIndex no document record has a path with a segment that
\* starts with ".", the metadata directory included
C12_RebuildSkipsHidden ==
    LastIs(1, "reindex") =>
        \A f \in db.files : \A i \in DOMAIN f.path : ~Hidden(f.path[i])

\* a path has a segment that starts with ".", or lies in <root>/.x0v3rt
HiddenPath(path) == \E i \in DOMAIN path : Hidden(path[i])
MetaPath(path) == path # <<>> /\ path[1] = META_DIRNAME

\* C17: the default listing, the cached tree and the persisted tree hold no
\* entry with a name starting with "." and nothing of the metadata subtree;
\* the listing with hidden files requested holds the dotfiles and, unless
\* the metadata is requested too, nothing of the metadata subtree
C17_ListingExclusions ==
    /\ \A e \in cachedIndex.tree \cup indexJson[notesDir].tree :
          ~HiddenPath(e.path) /\ ~MetaPath(e.path)
    /\ (pc = "reported" /\ arg.op = "list") =>
          /\ (~arg.includeHidden /\ ~arg.includeMeta) =>
                \A q \in ret.paths : ~HiddenPath(q) /\ ~MetaPath(q)
          /\ (arg.includeHidden /\ ~arg.includeMeta) =>
                /\ \A q \in ret.paths : ~MetaPath(q)
                /\ \A f \in WorkspaceFiles :
                      META_DIRNAME \notin Range(Relative(notesDir, f))
                          => Relative(notesDir, f) \in ret.paths

\* a listing with hidden files of a workspace that has a dotfile and a file
\* in its metadata directory
C17_Witness ==
    /\ pc = "reported" /\ arg.op = "list"
    /\ arg.includeHidden /\ ~arg.includeMeta
    /\ <<".h.md">> \in ret.paths
    /\ IsFile(fs, notesDir \o <<META_DIRNAME, "a.md">>)

\* write, create, createFolder and delete given a name inside the metadata
\* subtree throw the restricted-path error, and no call changes a file there
MetaKeptByName ==
    /\ (pc = "reported" /\ arg.op \in {"write", "create", "createFolder", "delete"}
          /\ InMetaSubtree(notesDir, arg.name))
          => ret = Thrown("Access to metadata folder is restricted")
    /\ \A p \in DOMAIN fs :
          (IsFile(fs, p) /\ IsPrefix(notesDir \o <<META_DIRNAME>>, p))
              => p = notesDir \o <<META_DIRNAME, "a.md">> /\ fs[p].content = Content(NoFM, "Y")

\* what a document's front matter says: the mapping when it parses, the raw
\* block otherwise
Metadata(c) ==
    [hasFrontMatter |-> parseFrontMatter(c).hasFrontMatter,
     data |-> parseFrontMatter(c).data,
     raw |-> parseFrontMatter(c).raw]

\* the i-th record is a successful write of a note, given content without
\* front matter, over a document that had front matter
CarryWrite(i) ==
    /\ LastIs(i, "write") /\ last[i].ok
    /\ ExtName(LastSeg(last[i].name.segs)) = ".md"
    /\ ~parseFrontMatter(last[i].given).hasFrontMatter
    /\ last[i].prev.some
    /\ parseFrontMatter(last[i].prev.c).hasFrontMatter

\* C19: a write of content without front matter over a note that has front
\* matter persists the given body under the existing front matter (the same
\* mapping when it parsed, the same raw block otherwise), never under a
\* synthesized one; after two or three such writes in a row the metadata is
\* still what it was before the first of them.
C19_CarriesExistingFrontMatter ==
    /\ CarryWrite(1) =>
           /\ Metadata(last[1].out) = Metadata(last[1].prev.c)
           /\ last[1].out.body = last[1].given.body
           /\ (arg.op = "write" /\ ret.ok =>
                  /\ ret.content = last[1].out
                  /\ fs[AbsOf(last[1].name)].content = last[1].out)
    /\ \A i \in 2..3 :
           ((\A j \in 1..i : CarryWrite(j) /\ last[j].name = last[1].name)) =>
               Metadata(last[1].out) = Metadata(last[i].prev.c)

\* three writes of different bodies in a row over a note whose front matter
\* does not parse
C19_Witness ==
    /\ \A j \in 1..3 : CarryWrite(j) /\ last[j].name = last[1].name
    /\ ~parseFrontMatter(last[3].prev.c).hasData
    /\ last[1].given # last[2].given /\ last[2].given # last[3].given
    /\ arg.op = "write" /\ ret.ok

(***************************************************************************)
(* Synthesized front matter (SynthSpec): writeFile lines 377-389 and        *)
(* createFile lines 442-453 over the preference maps a user can save        *)
(***************************************************************************)
\* keys a row of the Front Matter preference tab can carry (the key is free text)
DefaultKeys == {"title", "created_timestamp", "author", "tags"}

DefaultMaps(v) ==
    {[k \in Keys |-> IF k \in S THEN v ELSE "-"] : S \in SUBSET DefaultKeys}

SynthWriteNames == {Rel(<<"a.md">>), Rel(<<"a.MD">>), Rel(<<"d", "a.md">>), Rel(<<".h.md">>)}
SynthCreateNames == {Rel(<<"a.md">>), Rel(<<"b">>), Rel(<<"d", "b">>)}

SynthArgs ==
    [name : SynthWriteNames \cup SynthCreateNames,
     systemDefaults : DefaultMaps("sys"),
     userDefaults : DefaultMaps("usr")]

SynthInit ==
    /\ notesDir = Root1
    /\ arg \in SynthArgs
    /\ ret = Thrown("pending")
    /\ pc = "idle"
    /\ fs = MkdirP(<<>>, Root1)
    /\ previous = <<>>
    /\ searchIndexer = NoRoot
    /\ dbs = <<>>
    /\ cachedIndex = NoIndex
    /\ indexJson = <<>>
    /\ tasks = <<>>
    /\ watcher = NoRoot
    /\ watcherTimer = 0
    /\ now \in {0, TicksPerMinute, 2 * TicksPerMinute + 1}
    /\ last = NoLast

\* writeFile of content without front matter to a note that does not exist
SynthOnWrite ==
    /\ pc = "idle"
    /\ arg.name \in SynthWriteNames
    /\ ret' = Returned(Content(buildFrontMatter(
                  SynthFrontMatterWith(arg.name, now, arg.systemDefaults,
                                       arg.userDefaults)), "X"), {})
    /\ pc' = "written"
    /\ UNCHANGED <<notesDir, arg, last, storeVars, searchIndexer, tasks, watcher, watcherTimer>>

\* createFile of a note that does not exist
SynthOnCreate ==
    /\ pc = "idle"
    /\ arg.name \in SynthCreateNames
    /\ ret' = Returned(Content(buildFrontMatter(
                  SynthFrontMatterWith(WithMd(arg.name), now, arg.systemDefaults,
                                       arg.userDefaults)), ""), {})
    /\ pc' = "created"
    /\ UNCHANGED <<notesDir, arg, last, storeVars, searchIndexer, tasks, watcher, watcherTimer>>

SynthNext == SynthOnWrite \/ SynthOnCreate

SynthSpec == SynthInit /\ [][SynthNext]_vars

\* the file name of a note without its extension
WithoutExtension(seg) ==
    CASE seg \in {"a.md", "a.MD"} -> "a"
      [] seg \in {"b.md", "b"} -> "b"
      [] seg = ".h.md" -> ".h"
      [] OTHER -> seg

Synthesized == pc \in {"written", "created"}

\* the three synthesized keys are as the note's name and the clock give them
SynthesizedKeys(data) ==
    /\ data["title"] = WithoutExtension(LastSeg(arg.name.segs))
    /\ data["created_timestamp"] = formatFrontMatterTimestamp(now)
    /\ data["modified_timestamp"] = formatFrontMatterTimestamp(now)

\* every other key is the user-level default when there is one, else the
\* system-level default, else absent
MergedDefaults(data) ==
    \A k \in Keys \ {"title", "created_timestamp", "modified_timestamp"} :
        data[k] = IF arg.userDefaults[k] # "-" THEN arg.userDefaults[k]
                  ELSE arg.systemDefaults[k]

\* C20: front matter synthesized for a note has title equal to the file name
\* without extension and created/modified timestamps equal to the current
\* time, and carries the system-level defaults overlaid by the user-level
\* defaults.
C20_SynthesizedFrontMatter ==
    Synthesized =>
        /\ ret.content.fm.kind = "yaml"
        /\ SynthesizedKeys(ret.content.fm.data)
        /\ MergedDefaults(ret.content.fm.data)

\* What does hold: the defaults are merged user over system, and the three
\* synthesized keys are as stated when no default map carries one of them and
\* the extension is written in lower case.
SynthesizedWithoutCollision ==
    Synthesized =>
        /\ MergedDefaults(ret.content.fm.data)
        /\ \A k \in Keys :
              arg.userDefaults[k] # "-" => ret.content.fm.data[k] = arg.userDefaults[k]
        /\ ((/\ \A k \in {"title", "created_timestamp", "modified_timestamp"} :
                    arg.userDefaults[k] = "-" /\ arg.systemDefaults[k] = "-"
             /\ LastSeg(arg.name.segs) # "a.MD")
               => SynthesizedKeys(ret.content.fm.data))

\* the most recent record is a successful write of a file that is not a note
OtherWrite ==
    /\ LastIs(1, "write") /\ last[1].ok
    /\ ExtName(LastSeg(last[1].name.segs)) # ".md"

\* C21: a write to a file whose extension is not the note extension persists
\* exactly the content it was given: what is stored and what is returned
\* equal the input, with no front matter added.
C21_OtherTypesStoredAsIs ==
    OtherWrite =>
        /\ last[1].out = last[1].given
        /\ (arg.op = "write" /\ ret.ok =>
               /\ ret.content = last[1].given
               /\ fs[AbsOf(last[1].name)].content = last[1].given)

\* a text file written with content that has no front matter
C21_Witness ==
    /\ OtherWrite
    /\ ~parseFrontMatter(last[1].given).hasFrontMatter
    /\ arg.op = "write" /\ ret.ok
    /\ fs[AbsOf(last[1].name)].content.fm = NoFM

\* the i-th record is a successful undo of a document that existed
UndoOfExisting(i) == LastIs(i, "undo") /\ last[i].ok /\ last[i].prev.some

\* the snapshots of the document of the i-th record that were made after it
\* (i = 1) or between it and the next record (i = 2)
MadeBy(i) ==
    (IF i = 1 THEN SnapshotsOf(previous, PreviousKey(notesDir, last[1].name))
     ELSE last[i - 1].snaps) \ last[i].snaps

SnapshotContent(name, n) == previous[PreviousKey(notesDir, name)][n]

\* the i-th record returned the content of the most recent snapshot it found
RestoredLatest(i) ==
    \E n \in last[i].snaps :
        /\ \A m \in last[i].snaps : SortRank(m) <= SortRank(n)
        /\ SnapshotContent(last[i].name, n) = last[i].out

\* the i-th record saved the content it replaced as one new redo snapshot
SavedRedo(i) ==
    /\ Cardinality(MadeBy(i)) = 1
    /\ \A n \in MadeBy(i) : n.redo /\ SnapshotContent(last[i].name, n) = last[i].prev.c

UndoUndo ==
    /\ UndoOfExisting(1) /\ UndoOfExisting(2)
    /\ last[1].name = last[2].name

\* the document is left with the content the first of two undos replaced
BackToStart ==
    /\ last[1].out = last[2].prev.c
    /\ fs[AbsOf(last[1].name)].content = last[2].prev.c
    /\ (arg.op = "undo" /\ ret.ok => ret.content = last[2].prev.c)

\* C22 as stated: an undo of an existing document with a snapshot saves the
\* current content as a new redo snapshot and restores the most recent
\* snapshot, and a second undo right after it brings back the content the
\* document had before the first.
C22_UndoSavesRedo ==
    /\ UndoOfExisting(1) => SavedRedo(1) /\ RestoredLatest(1)
    /\ UndoUndo => SavedRedo(2) /\ BackToStart

\* C22 as the code has it: the redo snapshot is written only when the current
\* content differs from the snapshot being restored (line 518); otherwise no
\* snapshot is written. Either way the most recent snapshot is restored and a
\* second undo brings back the content the document had before the first.
C22_UndoSavesRedoWhenDifferent ==
    /\ UndoOfExisting(1) =>
           /\ RestoredLatest(1)
           /\ IF last[1].prev.c # last[1].out THEN SavedRedo(1) ELSE MadeBy(1) = {}
    /\ UndoUndo =>
           /\ IF last[2].prev.c # last[2].out THEN SavedRedo(2) ELSE MadeBy(2) = {}
           /\ BackToStart

\* two undos in a row of a document whose content differed from its snapshot
C22_Witness ==
    /\ UndoUndo
    /\ last[2].prev.c # last[2].out
    /\ arg.op = "undo" /\ ret.ok

\* a move is being answered whose source is a folder and whose target is
\* that folder or lies inside it
SelfContainingMove ==
    /\ pc = "idle" /\ pc' # "idle"
    /\ arg'.op = "move"
    /\ IsDir(fs, AbsOf(arg'.name))
    /\ IsPrefix(AbsOf(arg'.name), AbsOf(arg'.to))

\* C23: a move of a folder onto itself or into its own subtree is rejected
\* and leaves the filesystem, the tree cache and the index unchanged.
C23_SelfMoveRejected ==
    [][SelfContainingMove =>
          /\ ~ret'.ok
          /\ UNCHANGED <<fs, cachedIndex, indexJson, dbs>>]_vars

\* a move is being answered whose two names both resolve
MoveAnswered ==
    /\ pc = "idle" /\ pc' # "idle"
    /\ arg'.op = "move"
    /\ ResolveMoveArg(notesDir, arg'.name).ok
    /\ ResolveMoveArg(notesDir, arg'.to).ok

MoveSource == ResolveMoveArg(notesDir, arg'.name).path
MoveTarget == ResolveMoveArg(notesDir, arg'.to).path

\* C24: a move (of names that resolve) whose source does not exist fails with
\* "Source file does not exist", and one whose source exists and whose target
\* exists fails with "Target file already exists"; in both cases nothing is
\* renamed, no directory is created, and the index, the tree cache and the
\* snapshots are unchanged.
C24_MoveFailsCleanly ==
    [][MoveAnswered =>
          /\ ~Exists(fs, MoveSource) =>
                /\ ret' = Thrown("Source file does not exist")
                /\ UNCHANGED <<fs, cachedIndex, indexJson, dbs, previous>>
          /\ Exists(fs, MoveSource) /\ Exists(fs, MoveTarget) =>
                /\ ret' = Thrown("Target file already exists")
                /\ UNCHANGED <<fs, cachedIndex, indexJson, dbs, previous>>]_vars

\* a move of a missing source to a target whose parent directory is missing
\* too has failed, and the parent directory is still missing
C24_Witness ==
    /\ arg.op = "move" /\ pc = "reported"
    /\ ret = Thrown("Source file does not exist")
    /\ ~Exists(fs, Parent(AbsOf(arg.to)))

(***************************************************************************)
(* Overlapping create calls (CreateSpec): createFile and createFolder      *)
(* split at their awaits, with the buildIndex steps of ConcSpec             *)
(***************************************************************************)
ConcCreates == {Rel(<<"b">>), Rel(<<"a.md">>)}
ConcFolders == {Rel(<<"d">>)}

CreateInit == ConcInit

\* ipc 'file:create': createFile appends ".md" and stops at ensureNotesDir
CallCreateFile ==
    \E f \in ConcCreates :
        /\ Start([Idle EXCEPT !.op = "create", !.pc = "access", !.name = WithMd(f)])
        /\ Log(Event("create", f.segs, NoContent))
        /\ UNCHANGED <<arg, ret, pc, wsVars, fs, previous, dbs, cachedIndex, indexJson>>

\* ipc 'file:create-folder': createFolder stops at ensureNotesDir
CallCreateFolder ==
    \E f \in ConcFolders :
        /\ Start([Idle EXCEPT !.op = "mkdir", !.pc = "access", !.name = f])
        /\ Log(Event("mkdir", f.segs, NoContent))
        /\ UNCHANGED <<arg, ret, pc, wsVars, fs, previous, dbs, cachedIndex, indexJson>>

\* createFile lines 429-438, createFolder lines 472-481: the name is
\* resolved and fs.access decides whether the call throws
AccessStep ==
    \E i \in DOMAIN tasks :
        LET t == tasks[i]
            r == resolveSafePath(notesDir, t.name, FALSE)
        IN  /\ t.pc = "access"
            /\ IF ~r.ok \/ Exists(fs, r.path) \/ UnderFile(fs, r.path)
               THEN Set(i, Idle)
               ELSE Set(i, [t EXCEPT !.pc = "make", !.path = r.path])
            /\ UNCHANGED <<callVars, wsVars, storeVars>>

\* createFile lines 440-455: mkdir of the parent, the defaults are read, the
\* synthesized front matter is written; createFolder line 483: mkdir
MakeStep ==
    \E i \in DOMAIN tasks :
        LET t == tasks[i]
            content == Content(buildFrontMatter(SynthFrontMatter(t.name, now)), "")
        IN  /\ t.pc = "make"
            /\ IF t.op = "create"
               THEN /\ fs' = WriteNode(MkdirP(fs, Parent(t.path)), t.path, content)
                    /\ Log(Event("persist", t.path, content))
               ELSE /\ fs' = MkdirP(fs, t.path)
                    /\ UNCHANGED last
            /\ Set(i, [t EXCEPT !.pc = "scan"])
            /\ watcherTimer' = TimerAfterChange(t.path)
            /\ UNCHANGED <<arg, ret, pc, notesDir, searchIndexer, watcher,
                           previous, dbs, cachedIndex, indexJson, now>>

CreateNext ==
    \/ CallCreateFile
    \/ CallCreateFolder
    \/ AccessStep
    \/ MakeStep
    \/ TimerFire
    \/ ScanStep
    \/ InstallStep
    \/ SaveStep

CreateSpec == CreateInit /\ [][CreateNext]_vars

\* a create call writes its document in this step
CreateWrites == Len(last') > Len(last) /\ last'[1].op = "persist"

\* C25: create never overwrites: when createFile writes the new document,
\* nothing exists at its path, also when other create calls are in flight.
C25_CreateNeverOverwrites ==
    [][CreateWrites => ~Exists(fs, last'[1].path)]_vars

\* What does hold of overlapping creates: a call whose fs.access finds the
\* target ends without changing the filesystem, the tree cache or the index.
CreateFailsCleanly ==
    [][(\E i \in DOMAIN tasks :
            tasks[i].pc = "access" /\ tasks'[i] = Idle) =>
          UNCHANGED <<fs, cachedIndex, indexJson, dbs, previous>>]_vars

\* a read has been answered; the location its name resolves to
ReadAnswered == pc = "reported" /\ arg.op = "read"
ReadTarget == resolveSafePath(notesDir, arg.name, arg.allowMeta)

\* the answer is the missing marker / a raised failure
IsMissing == "missing" \in DOMAIN ret
IsFailure == ~ret.ok /\ ~IsMissing

BlankSearch ==
    /\ pc = "idle" /\ pc' = "reported"
    /\ arg'.op = "search"
    /\ arg'.query \in {"", " "}

\* C27: a search with an empty or whitespace-only query returns the empty
\* list, does not raise, and leaves the index (and everything else stored)
\* as it was, whatever the index holds.
C27_BlankSearchEmpty ==
    [][BlankSearch =>
          /\ ret' = Returned(NoContent, {})
          /\ UNCHANGED <<dbs, searchIndexer, fs, cachedIndex, indexJson, previous>>]_vars

\* a whitespace-only query answered over an index that has records
C27_Witness ==
    /\ pc = "reported" /\ arg.op = "search" /\ arg.query = " "
    /\ db.files # {}
    /\ ret.ok /\ ret.paths = {}

\* what an index says: for each record its relative path and the full-text
\* rows stored for it, without the row numbers
IndexContent(d) ==
    {[path |-> f.path,
      rows |-> {[filename |-> r.filename, fm |-> r.fm, content |-> r.content] :
                    r \in {q \in d.fts : q.rowid = f.id}}] : f \in d.files}

\* C28: with no call in flight, the index holds what rebuildIndex would
\* produce from the filesystem of that moment: the same records, with the
\* same relative paths and the same indexed content.
C28_IndexMatchesRebuild ==
    pc = "idle" =>
        IndexContent(db) = IndexContent(RebuildDb(EmptyDb, searchIndexer, fs))

\* the most recent record is an undo, the one before it a write to another
\* relative path that took a snapshot
WriteThenUndoElsewhere ==
    /\ LastIs(1, "undo") /\ last[1].ok
    /\ LastIs(2, "write") /\ last[2].ok
    /\ RelOf(last[1].name) # RelOf(last[2].name)
    /\ NeedsSnapshot(last[2].prev, last[2].out)

\* C29: version history is per document: the snapshot directory of a
\* relative path differs from that of every other relative path, so the
\* undo of one document never restores the snapshot a write to another
\* document took.
C29_HistoryPerDocument ==
    WriteThenUndoElsewhere =>
        /\ PreviousKey(notesDir, last[1].name) # PreviousKey(notesDir, last[2].name)
        /\ ~\E n \in last[1].snaps \ last[2].snaps :
                /\ PreviousKey(notesDir, last[1].name) = PreviousKey(notesDir, last[2].name)
                /\ \A m \in last[1].snaps : SortRank(m) <= SortRank(n)
                /\ last[1].out = last[2].prev.c

\* a move is being answered: it fails (pc) or it completes (last)
MoveCall ==
    /\ pc = "idle" /\ arg'.op = "move"
    /\ pc' = "reported" \/ last' # last

\* the location a name of the move stands for is not one the workspace may
\* rename from or to
Forbidden(name) ==
    LET r == ResolveMoveArg(notesDir, name)
    IN  \/ ~r.ok
        \/ ~InsideRoot(notesDir, r.path)
        \/ isMetaPath(notesDir, r.path)

\* C30: a move whose source or target, relative or absolute, lies outside
\* the workspace root or inside the metadata subtree fails and changes
\* nothing on the filesystem.
C30_MoveStaysInWorkspace ==
    [][MoveCall /\ (Forbidden(arg'.name) \/ Forbidden(arg'.to)) =>
          ~ret'.ok /\ UNCHANGED fs]_vars

====
